---- MODULE Spec2Model ----
(***************************************************************************)
(* swift3 S3 ACL layer: the ACL data model of swift3/subresource.py and    *)
(* the ACL handlers of swift3/acl_handlers.py.                             *)
(*                                                                         *)
(* Python values are encoded as records of one shape per type, so that     *)
(* any two values of a type can be compared:                               *)
(*   Owner   [id, name]                                                    *)
(*   Grantee [type, id]       type is the class name, id is "" for groups  *)
(*   Grant   [grantee, permission]                                         *)
(*   ACL     [some, owner, grants]   some = FALSE encodes Python's None    *)
(* The py field of an Owner value is the Python type of the value held     *)
(* where an Owner is expected: "Owner", "NoneType", or "instancemethod"    *)
(* (the bound method ACL.owner, passed uncalled by the handlers).          *)
(* A call that can raise returns the name of the exception as a string     *)
(* ("ok" when it returns normally).                                        *)
(***************************************************************************)
EXTENDS Integers, Sequences, FiniteSets, TLC

VARIABLES
    chk,    \* SpecCheck: an ACL and the check_permission call made on it
    hdr,    \* SpecHeaders: request headers and the from_headers call made on them
    store,  \* Spec: the buckets and objects of the backend, each with its ACL metadata
    req,    \* Spec: the last request handled, with what its ACL handler did
    inflight \* SpecBucketPut: the bucket PUT of each identity, step by step

vars == <<chk, hdr, store, req, inflight>>

(***************************************************************************)
(* Bounds of the model.                                                    *)
(***************************************************************************)
MaxGrants == 2
MaxHeaders == 2

(***************************************************************************)
(* subresource.py: permissions, grantees, grants.                          *)
(***************************************************************************)
PERMISSIONS == {"FULL_CONTROL", "READ", "WRITE", "READ_ACP", "WRITE_ACP"}

\* The S3 user ids of the model; requests are made by these identities.
UserIds == {"U1", "U2"}

Owner(id, name) == [py |-> "Owner", id |-> id, name |-> name]

NoOwner == [py |-> "NoneType", id |-> "", name |-> ""]

\* User.__init__: id and display name are both the given name.
User(name) == [type |-> "User", id |-> name]
AllUsers == [type |-> "AllUsers", id |-> ""]
AuthenticatedUsers == [type |-> "AuthenticatedUsers", id |-> ""]
LogDelivery == [type |-> "LogDelivery", id |-> ""]

Grantees == {User(u) : u \in UserIds} \cup {AllUsers, AuthenticatedUsers, LogDelivery}

\* Grantee.__contains__ of the base class raises.
Grantee_contains(self, key) == "S3NotImplemented"

User_contains(self, key) == IF key = self.id THEN "true" ELSE "false"

AuthenticatedUsers_containsDenies(self, key) == "false"

AuthenticatedUsers_contains(self, key) == "true"

AllUsers_contains(self, key) == "true"

\* class LogDelivery(Group): pass -- no __contains__ of its own, nor has Group:
\* the method resolves to Grantee.__contains__.
LogDelivery_contains(self, key) == Grantee_contains(self, key)

\* `key in grantee`: "true", "false", or the exception raised.
contains(grantee, key) ==
    CASE grantee.type = "User" -> User_contains(grantee, key)
      [] grantee.type = "AuthenticatedUsers" -> AuthenticatedUsers_contains(grantee, key)
      [] grantee.type = "AllUsers" -> AllUsers_contains(grantee, key)
      [] grantee.type = "LogDelivery" -> LogDelivery_contains(grantee, key)
      [] OTHER -> Grantee_contains(grantee, key)

Grant(grantee, permission) == [grantee |-> grantee, permission |-> permission]

\* Grant.allow: `permission == self.permission and grantee in self.grantee`;
\* `and` does not evaluate the membership test when the permissions differ.
allow(self, grantee, permission) ==
    IF permission = self.permission THEN contains(self.grantee, grantee) ELSE "false"

(***************************************************************************)
(* subresource.py: class ACL.                                              *)
(***************************************************************************)
ACL(owner, grants) == [some |-> TRUE, owner |-> owner, grants |-> grants]

None == [some |-> FALSE, owner |-> NoOwner, grants |-> <<>>]

check_ownerInverted(self, user_id) ==
    IF user_id = self.owner.id THEN "AccessDenied" ELSE "ok"

\* self._owner.id raises AttributeError when _owner is not an Owner.
check_owner(self, user_id) ==
    IF self.owner.py # "Owner" THEN "AttributeError"
    ELSE IF user_id # self.owner.id THEN "AccessDenied" ELSE "ok"

\* The loop of check_permission from grant i on.
RECURSIVE scan_grants(_, _, _, _)
scan_grants(grants, i, user_id, permission) ==
    IF i > Len(grants) THEN "AccessDenied"
    ELSE LET fc == allow(grants[i], user_id, "FULL_CONTROL")
             pm == allow(grants[i], user_id, permission)
         IN  IF fc = "true" THEN "ok"
             ELSE IF fc # "false" THEN fc
             ELSE IF pm = "true" THEN "ok"
             ELSE IF pm # "false" THEN pm
             ELSE scan_grants(grants, i + 1, user_id, permission)

\* try: check_owner; return / except AccessDenied: pass -- any other
\* exception of check_owner propagates.
check_permission(self, user_id, permission) ==
    LET own == check_owner(self, user_id)
    IN  IF own = "ok" THEN "ok"
        ELSE IF own # "AccessDenied" THEN own
        ELSE scan_grants(self.grants, 1, user_id, permission)

(***************************************************************************)
(* subresource.py: grantees and grants from request headers.               *)
(*                                                                         *)
(* Strings that the code takes apart are encoded by their parts:           *)
(*   header key   [prefix, rest]      the key is prefix followed by rest   *)
(*   grantee spec [eq, type, quote, text]                                  *)
(*                    eq: the spec holds '='; then it reads                *)
(*                    type=<quote>text<quote>, else it reads type          *)
(*   header value [text, parts]       parts = text.split(',')              *)
(***************************************************************************)
Key(prefix, rest) == [prefix |-> prefix, rest |-> rest]

AclKey == Key("", "x-amz-acl")

Value(text, parts) == [text |-> text, parts |-> parts]

Spec_(eq, type, quote, text) == [eq |-> eq, type |-> type, quote |-> quote, text |-> text]

\* key.lower().startswith('x-amz-grant-')
startswith_grant(key) == key.prefix = "x-amz-grant-"

\* str.upper() on the strings of the model.
upper(s) ==
    CASE s \in {"read", "Read", "READ"} -> "READ"
      [] s \in {"write", "WRITE"} -> "WRITE"
      [] s \in {"read-acp", "READ-ACP"} -> "READ-ACP"
      [] s \in {"read_acp", "READ_ACP"} -> "READ_ACP"
      [] s \in {"write-acp", "WRITE-ACP"} -> "WRITE-ACP"
      [] s \in {"write_acp", "WRITE_ACP"} -> "WRITE_ACP"
      [] s \in {"full-control", "FULL-CONTROL"} -> "FULL-CONTROL"
      [] s \in {"full_control", "FULL_CONTROL"} -> "FULL_CONTROL"
      [] s \in {"foo", "FOO"} -> "FOO"
      [] OTHER -> s

\* str.replace('-', '_') on the strings of the model.
replace_dash(s) ==
    CASE s = "READ-ACP" -> "READ_ACP"
      [] s = "WRITE-ACP" -> "WRITE_ACP"
      [] s = "FULL-CONTROL" -> "FULL_CONTROL"
      [] s = "read-acp" -> "read_acp"
      [] s = "write-acp" -> "write_acp"
      [] s = "full-control" -> "full_control"
      [] OTHER -> s

AuthenticatedUsersUri == "http://acs.amazonaws.com/groups/global/AuthenticatedUsers"
AllUsersUri == "http://acs.amazonaws.com/groups/global/AllUsers"

\* Group.__subclasses__() in definition order, each with its uri attribute;
\* LogDelivery sets none and has Group.uri = ''.
GroupSubclasses ==
    << [uri |-> AuthenticatedUsersUri, group |-> AuthenticatedUsers],
       [uri |-> AllUsersUri, group |-> AllUsers],
       [uri |-> "", group |-> LogDelivery] >>

NoGrantee == [type |-> "NoneType", id |-> ""]

get_group_subclass_from_uri(uri) ==
    IF \E k \in 1..Len(GroupSubclasses) : GroupSubclasses[k].uri = uri
    THEN LET k == CHOOSE k \in 1..Len(GroupSubclasses) :
                    /\ GroupSubclasses[k].uri = uri
                    /\ \A j \in 1..(k - 1) : GroupSubclasses[j].uri # uri
         IN  [err |-> "ok", grantee |-> GroupSubclasses[k].group]
    ELSE [err |-> "InvalidArgument", grantee |-> NoGrantee]

\* Grantee.from_header: split('=', 1) of a string without '=' yields one
\* element and the unpacking raises ValueError; strip removes the quotes.
from_header(grantee) ==
    IF ~grantee.eq THEN [err |-> "ValueError", grantee |-> NoGrantee]
    ELSE CASE grantee.type = "id" -> [err |-> "ok", grantee |-> User(grantee.text)]
           [] grantee.type = "emailAddress" -> [err |-> "S3NotImplemented", grantee |-> NoGrantee]
           [] grantee.type = "uri" -> get_group_subclass_from_uri(grantee.text)
           [] OTHER -> [err |-> "InvalidArgument", grantee |-> NoGrantee]

NoGrant == Grant(NoGrantee, "")

\* Grant.__init__: the permission is tested in upper case and stored as given;
\* a bare `raise` with no active exception is a TypeError.
Grant_init(grantee, permission) ==
    IF upper(permission) \notin PERMISSIONS THEN [err |-> "S3NotImplemented", grant |-> NoGrant]
    ELSE IF grantee.type = "NoneType" THEN [err |-> "TypeError", grant |-> NoGrant]
    ELSE [err |-> "ok", grant |-> Grant(grantee, permission)]

CannedNames ==
    {"private", "public-read", "public-read-write", "authenticated-read",
     "bucket-owner-read", "bucket-owner-full-control", "log-delivery-write"}

\* canned_acl_grantees: the dict literal is built whole, so owner.name and
\* bucket_owner.name are both read whatever the key looked up afterwards.
canned_acl_grantees(bucket_owner, object_owner) ==
    LET owner == IF object_owner.py # "NoneType" THEN object_owner ELSE bucket_owner
        pair(p, g) == [permission |-> p, grantee |-> g]
    IN  IF owner.py # "Owner" \/ bucket_owner.py # "Owner"
        THEN [err |-> "AttributeError", map |-> [n \in CannedNames |-> <<>>]]
        ELSE [err |-> "ok", map |->
                [n \in CannedNames |->
                    CASE n = "private" ->
                            << pair("FULL_CONTROL", User(owner.name)) >>
                      [] n = "public-read" ->
                            << pair("READ", AllUsers),
                               pair("FULL_CONTROL", User(owner.name)) >>
                      [] n = "public-read-write" ->
                            << pair("READ", AllUsers),
                               pair("WRITE", AllUsers),
                               pair("FULL_CONTROL", User(owner.name)) >>
                      [] n = "authenticated-read" ->
                            << pair("READ", AuthenticatedUsers),
                               pair("FULL_CONTROL", User(owner.name)) >>
                      [] n = "bucket-owner-read" ->
                            << pair("READ", User(bucket_owner.name)),
                               pair("FULL_CONTROL", User(owner.name)) >>
                      [] n = "bucket-owner-full-control" ->
                            << pair("FULL_CONTROL", User(owner.name)),
                               pair("FULL_CONTROL", User(bucket_owner.name)) >>
                      [] n = "log-delivery-write" ->
                            << pair("WRITE", LogDelivery),
                               pair("READ_ACP", LogDelivery),
                               pair("FULL_CONTROL", User(owner.name)) >>]]

\* for grantee in value.split(','):
\*     grants.append(Grant(Grantee.from_header(grantee), permission))
RECURSIVE header_grantees(_, _, _, _)
header_grant(parts, j, permission, grants, gr) ==
    IF gr.err # "ok" THEN [err |-> gr.err, grants |-> grants]
    ELSE header_grantees(parts, j + 1, permission, Append(grants, gr.grant))

header_grantee(parts, j, permission, grants, ge) ==
    IF ge.err # "ok" THEN [err |-> ge.err, grants |-> grants]
    ELSE header_grant(parts, j, permission, grants, Grant_init(ge.grantee, permission))

header_grantees(parts, j, permission, grants) ==
    IF j > Len(parts) THEN [err |-> "ok", grants |-> grants]
    ELSE header_grantee(parts, j, permission, grants, from_header(parts[j]))

\* for key, value in headers.items(): the x-amz-grant-* headers, in the
\* order items() visits them (the order of the sequence).
RECURSIVE header_loop(_, _, _)
header_loop_next(headers, i, r) ==
    IF r.err # "ok" THEN r ELSE header_loop(headers, i + 1, r.grants)

header_loop(headers, i, grants) ==
    IF i > Len(headers) THEN [err |-> "ok", grants |-> grants]
    ELSE IF startswith_grant(headers[i].key)
         THEN header_loop_next(headers, i,
                header_grantees(headers[i].value.parts, 1,
                                replace_dash(upper(headers[i].key.rest)), grants))
         ELSE header_loop(headers, i + 1, grants)

has_header(headers, key) == \E i \in 1..Len(headers) : headers[i].key = key

get_header(headers, key) ==
    headers[CHOOSE i \in 1..Len(headers) : headers[i].key = key].value

\* for permission, grantee in grantees: grants.append(Grant(grantee, permission))
RECURSIVE canned_grants(_, _, _)
canned_grant(grantees, j, grants, gr) ==
    IF gr.err # "ok" THEN [err |-> gr.err, grants |-> grants]
    ELSE canned_grants(grantees, j + 1, Append(grants, gr.grant))

canned_grants(grantees, j, grants) ==
    IF j > Len(grantees) THEN [err |-> "ok", grants |-> grants]
    ELSE canned_grant(grantees, j, grants,
                      Grant_init(grantees[j].grantee, grantees[j].permission))

\* grantees = canned_acl_grantees(bucket_owner, object_owner)[acl] and the
\* loop over it; c is what canned_acl_grantees gave.
canned_lookup(acl, grants, c) ==
    IF c.err # "ok" THEN [err |-> c.err, grants |-> grants]
    ELSE IF acl \notin DOMAIN c.map THEN [err |-> "KeyError", grants |-> grants]
    ELSE canned_grants(c.map[acl], 1, grants)

canned_stepNoConflictTest(headers, grants, bucket_owner, object_owner) ==
    IF ~has_header(headers, AclKey) THEN [err |-> "ok", grants |-> grants]
    ELSE canned_lookup(get_header(headers, AclKey).text, grants,
                       canned_acl_grantees(bucket_owner, object_owner))

\* if 'x-amz-acl' in headers: ... of from_headers.
canned_step(headers, grants, bucket_owner, object_owner) ==
    IF ~has_header(headers, AclKey) THEN [err |-> "ok", grants |-> grants]
    ELSE IF Len(grants) > 0 THEN [err |-> "InvalidRequest", grants |-> grants]
    ELSE canned_lookup(get_header(headers, AclKey).text, grants,
                       canned_acl_grantees(bucket_owner, object_owner))

\* The try block without its except clause.
except_nothing(err) == err

\* except (KeyError, ValueError): raise InvalidRequest()
except_KeyError_ValueError(err) ==
    IF err \in {"KeyError", "ValueError"} THEN "InvalidRequest" ELSE err

\* ACL.from_headers: [err, acl], acl = None when it raises or finds no ACL header.
\* The end of from_headers, step being what the try block gave.
from_headers_result(step, bucket_owner, object_owner) ==
    IF step.err # "ok"
    THEN [err |-> except_KeyError_ValueError(step.err), acl |-> None]
    ELSE IF Len(step.grants) = 0 THEN [err |-> "ok", acl |-> None]
    ELSE [err |-> "ok",
          acl |-> ACL(IF object_owner.py # "NoneType" THEN object_owner ELSE bucket_owner,
                      step.grants)]

\* The try block of from_headers after its loop over the headers.
from_headers_try(headers, loop, bucket_owner, object_owner) ==
    IF loop.err # "ok" THEN loop
    ELSE canned_step(headers, loop.grants, bucket_owner, object_owner)

from_headers(headers, bucket_owner, object_owner) ==
    from_headers_result(
        from_headers_try(headers, header_loop(headers, 1, <<>>), bucket_owner, object_owner),
        bucket_owner, object_owner)

(***************************************************************************)
(* The storage collaborator (swift3/request.py, not part of the core):     *)
(* get_acl_response issues a backend call and returns the response with    *)
(* the ACLs of the resource fetched.                                       *)
(*   store  [buckets: name -> [exists, acl], objects: name -> [exists, acl]]*)
(*          the objects are those of bucket "bucket"                       *)
(*   resp   [some, bucket_acl, object_acl]                                 *)
(*   call   [method, container, obj]                                       *)
(***************************************************************************)
Buckets == {"bucket"}

Objects == {"obj", "src"}

MULTIUPLOAD_SUFFIX == "+segments"

\* container.endswith(MULTIUPLOAD_SUFFIX) on the container names of the model.
endswith_suffix(container) == container \in {"bucket+segments"}

\* container[:-len(MULTIUPLOAD_SUFFIX)] on the container names of the model.
strip_suffix(container) ==
    CASE container = "bucket+segments" -> "bucket"
      [] OTHER -> container

\* container[:-len(MULTIUPLOAD_SUFFIX)] with no test of the suffix, on the
\* container names of the model: the last nine characters go, whatever
\* they are.
drop_suffix_len(container) ==
    CASE container = "bucket+segments" -> "bucket"
      [] OTHER -> ""

Absent == [exists |-> FALSE, acl |-> None]

NoResp == [some |-> FALSE, bucket_acl |-> None, object_acl |-> None]

Call(method, container, obj) == [method |-> method, container |-> container, obj |-> obj]

bucket_exists(st, container) == container \in Buckets /\ st.buckets[container].exists

object_exists(st, container, obj) ==
    bucket_exists(st, container) /\ obj \in Objects /\ st.objects[obj].exists

\* A metadata fetch: [err, resp].
fetch(st, container, obj) ==
    IF obj = ""
    THEN IF bucket_exists(st, container)
         THEN [err |-> "ok",
               resp |-> [some |-> TRUE, bucket_acl |-> st.buckets[container].acl,
                         object_acl |-> None]]
         ELSE [err |-> "NoSuchBucket", resp |-> NoResp]
    ELSE IF object_exists(st, container, obj)
         THEN [err |-> "ok",
               resp |-> [some |-> TRUE, bucket_acl |-> None,
                         object_acl |-> st.objects[obj].acl]]
         ELSE [err |-> "NoSuchKey", resp |-> NoResp]

(***************************************************************************)
(* acl_handlers.py: the Operation Policy Table and the generic procedure.  *)
(*   self   the handler with its request:                                  *)
(*          [method, user_id, container, obj, headers, body]               *)
(*   result of a handler step: [err, resp, calls]                          *)
(***************************************************************************)
Triple(s3, sw, resource) == <<s3, sw, resource>>

\* A table with an entry whose permission is no permission at all.
ACL_MAPUnknownPermission ==
    ( Triple("GET", "GET", "container") :> [Resource |-> "", Permission |-> "LIST"] )
    @@ ( Triple("DELETE", "DELETE", "object") :> [Resource |-> "container", Permission |-> "WRITE"] )

ACL_MAP ==
    ( Triple("HEAD", "HEAD", "container") :> [Resource |-> "", Permission |-> "READ"] )
    @@ ( Triple("GET", "HEAD", "container") :> [Resource |-> "", Permission |-> "OWNER"] )
    @@ ( Triple("GET", "GET", "container") :> [Resource |-> "", Permission |-> "READ"] )
    @@ ( Triple("PUT", "HEAD", "container") :> [Resource |-> "", Permission |-> "WRITE"] )
    @@ ( Triple("DELETE", "DELETE", "container") :> [Resource |-> "", Permission |-> "OWNER"] )
    @@ ( Triple("HEAD", "HEAD", "object") :> [Resource |-> "", Permission |-> "READ"] )
    @@ ( Triple("GET", "GET", "object") :> [Resource |-> "", Permission |-> "READ"] )
    @@ ( Triple("PUT", "HEAD", "object") :> [Resource |-> "", Permission |-> "WRITE"] )
    @@ ( Triple("POST", "GET", "container") :> [Resource |-> "", Permission |-> "WRITE"] )
    @@ ( Triple("POST", "PUT", "container") :> [Resource |-> "", Permission |-> "WRITE"] )
    @@ ( Triple("DELETE", "HEAD", "object") :> [Resource |-> "container", Permission |-> "WRITE"] )
    @@ ( Triple("PUT", "PUT", "object") :> [Resource |-> "container", Permission |-> "WRITE"] )
    @@ ( Triple("DELETE", "DELETE", "object") :> [Resource |-> "container", Permission |-> "WRITE"] )
    @@ ( Triple("POST", "HEAD", "container") :> [Resource |-> "", Permission |-> "WRITE"] )

\* Python's None as an argument that is a string otherwise.
NONE == "<None>"

\* acl.check_permission(...) where acl may be None.
acl_check_permission(acl, user_id, permission) ==
    IF ~acl.some THEN "AttributeError" ELSE check_permission(acl, user_id, permission)

Step(err, resp, calls) == [err |-> err, resp |-> resp, calls |-> calls]

\* acl.check_permission(self.user_id, permission) has run; return resp when
\* sw_method is HEAD.
_handle_acl_checked(sw_method, resp, calls, checked) ==
    IF checked # "ok" THEN Step(checked, NoResp, calls)
    ELSE Step("ok", IF sw_method = "HEAD" THEN resp ELSE NoResp, calls)

\* get_acl_response has run, with result f.
_handle_acl_fetched(self, sw_method, resource, permission, f, calls) ==
    IF f.err # "ok" THEN Step(f.err, NoResp, calls)
    ELSE _handle_acl_checked(sw_method, f.resp, calls,
            acl_check_permission(
                IF resource = "object" THEN f.resp.object_acl ELSE f.resp.bucket_acl,
                self.user_id, permission))

\* The fetch of the resource to check, the container name with its suffix
\* stripped.
_handle_acl_fetch(self, st, sw_method, container, obj, resource, permission) ==
    _handle_acl_fetched(self, sw_method, resource, permission,
        fetch(st, container, IF resource = "object" THEN obj ELSE ""),
        <<Call("HEAD", container, IF resource = "object" THEN obj ELSE "")>>)

\* The fetch and the check made whether or not a permission was resolved.
_handle_acl_resolvedUntested(self, st, sw_method, container, obj, resource, permission) ==
    _handle_acl_fetch(self, st, sw_method,
        IF endswith_suffix(container) THEN strip_suffix(container) ELSE container,
        obj, resource, permission)

\* The permission and the resource are resolved.
_handle_acl_resolved(self, st, sw_method, container, obj, resource, permission) ==
    IF permission \in {NONE, ""} THEN Step("Exception", NoResp, <<>>)
    ELSE _handle_acl_fetch(self, st, sw_method,
            IF endswith_suffix(container) THEN strip_suffix(container) ELSE container,
            obj, resource, permission)

\* The lookup without its resource override.
_handle_acl_lookupNoOverride(self, st, sw_method, container, obj, resource, permission) ==
    IF permission \in {NONE, ""} /\ Triple(self.method, sw_method, resource) \in DOMAIN ACL_MAP
    THEN _handle_acl_resolved(self, st, sw_method, container, obj, resource,
            ACL_MAP[Triple(self.method, sw_method, resource)].Permission)
    ELSE _handle_acl_resolved(self, st, sw_method, container, obj, resource, permission)

\* if not permission and (self.method, sw_method, resource) in ACL_MAP: ...
_handle_acl_lookup(self, st, sw_method, container, obj, resource, permission) ==
    IF permission \in {NONE, ""} /\ Triple(self.method, sw_method, resource) \in DOMAIN ACL_MAP
    THEN _handle_acl_resolved(self, st, sw_method, container, obj,
            IF ACL_MAP[Triple(self.method, sw_method, resource)].Resource # ""
            THEN ACL_MAP[Triple(self.method, sw_method, resource)].Resource ELSE resource,
            ACL_MAP[Triple(self.method, sw_method, resource)].Permission)
    ELSE _handle_acl_resolved(self, st, sw_method, container, obj, resource, permission)

\* The arguments have their defaults.
_handle_acl_args(self, st, sw_method, container, obj, permission) ==
    _handle_acl_lookup(self, st, sw_method, container, obj,
                       IF obj # "" THEN "object" ELSE "container", permission)

_handle_acl(self, st, sw_method, container, obj, permission) ==
    _handle_acl_args(self, st,
        IF sw_method \in {NONE, ""} THEN self.method ELSE sw_method,
        IF container = NONE THEN self.container ELSE container,
        IF obj = NONE THEN self.obj ELSE obj,
        permission)

CopySourceKey == Key("", "x-amz-copy-source")

\* src_path with '/' put in front when missing, then split_path(src_path, 0, 2, True),
\* on the paths of the model.
split_copy_source(src_path) ==
    CASE src_path \in {"/bucket/src", "bucket/src"} -> [bucket |-> "bucket", obj |-> "src"]
      [] src_path \in {"/bucket/obj", "bucket/obj"} -> [bucket |-> "bucket", obj |-> "obj"]
      [] src_path \in {"/ghost/src", "ghost/src"} -> [bucket |-> "ghost", obj |-> "src"]
      [] OTHER -> [bucket |-> "", obj |-> ""]

OkStep == [err |-> "ok", resp |-> NoResp, calls |-> <<>>]

\* The handler without its check of the copy source.
_check_copy_sourceSkipped(self, st) == OkStep

_check_copy_source(self, st) ==
    IF has_header(self.headers, CopySourceKey)
    THEN _handle_acl(self, st, "HEAD",
            split_copy_source(get_header(self.headers, CopySourceKey).text).bucket,
            split_copy_source(get_header(self.headers, CopySourceKey).text).obj,
            "READ")
    ELSE OkStep

(***************************************************************************)
(* acl_handlers.py: get_acl and the handlers of the controllers.           *)
(*   body     [present, valid, owner, grants]  the request body: absent,   *)
(*            not an ACL document, or an ACL document                      *)
(*   outcome of a handler: [err, calls, bucket_acl, object_acl, st]        *)
(*            bucket_acl, object_acl: the ACLs set on the request          *)
(*            st: the store after the backend calls the handler issued     *)
(***************************************************************************)
NoBody == [present |-> FALSE, valid |-> FALSE, owner |-> NoOwner, grants |-> <<>>]

(***************************************************************************)
(* The XML form.  An element tree is a record of the texts the code reads  *)
(* and writes:                                                             *)
(*   Grantee  [xsi_type, ID, DisplayName, URI]   NONE: no such child       *)
(*   Grant    [grantee, permission]                                        *)
(*   document [present, valid, owner, grants]                              *)
(* A document is what tostring gives for a tree and fromstring reads back: *)
(* an element written with text '' is an empty element, whose text reads   *)
(* back as None.                                                           *)
(***************************************************************************)
XmlUser(id, display_name) ==
    [xsi_type |-> "CanonicalUser", ID |-> id, DisplayName |-> display_name, URI |-> NONE]

XmlGroup(uri) == [xsi_type |-> "Group", ID |-> NONE, DisplayName |-> NONE, URI |-> uri]

\* self.uri of an instance of a subclass of Group.
Group_uri(self) ==
    GroupSubclasses[CHOOSE k \in 1..Len(GroupSubclasses) : GroupSubclasses[k].group = self].uri

\* User.elem and Group.elem
Grantee_elem(self) ==
    IF self.type = "User" THEN XmlUser(self.id, self.id) ELSE XmlGroup(Group_uri(self))

\* Grant.elem
Grant_elem(self) == [grantee |-> Grantee_elem(self.grantee), permission |-> self.permission]

\* ACL.elem
ACL_elem(self) ==
    [present |-> TRUE, valid |-> TRUE, owner |-> self.owner,
     grants |-> [i \in 1..Len(self.grants) |-> Grant_elem(self.grants[i])]]

\* The text of an element after tostring and fromstring.
reparsed_text(text) == IF text = "" THEN NONE ELSE text

\* fromstring(tostring(elem)): the tree read back from the document of a tree.
reparsed(elem) ==
    [present |-> elem.present, valid |-> elem.valid,
     owner |-> [py |-> elem.owner.py, id |-> reparsed_text(elem.owner.id),
                name |-> reparsed_text(elem.owner.name)],
     grants |-> [i \in 1..Len(elem.grants) |->
                    [grantee |-> [xsi_type |-> elem.grants[i].grantee.xsi_type,
                                  ID |-> reparsed_text(elem.grants[i].grantee.ID),
                                  DisplayName |-> reparsed_text(elem.grants[i].grantee.DisplayName),
                                  URI |-> reparsed_text(elem.grants[i].grantee.URI)],
                     permission |-> reparsed_text(elem.grants[i].permission)]]]

\* Grantee.from_elem: None for a type that is neither CanonicalUser nor Group.
Grantee_from_elem(elem) ==
    CASE elem.xsi_type = "CanonicalUser" -> [err |-> "ok", grantee |-> User(elem.ID)]
      [] elem.xsi_type = "Group" -> get_group_subclass_from_uri(elem.URI)
      [] OTHER -> [err |-> "ok", grantee |-> NoGrantee]

\* Grant.from_elem
Grant_from_elem(elem, g) ==
    IF g.err # "ok" THEN [err |-> g.err, grant |-> NoGrant]
    ELSE Grant_init(g.grantee, elem.permission)

\* ACL.from_elem on a document that passed the schema.
RECURSIVE elem_grants(_, _, _)
elem_grant(elems, j, grants, gr) ==
    IF gr.err # "ok" THEN [err |-> gr.err, grants |-> grants]
    ELSE elem_grants(elems, j + 1, Append(grants, gr.grant))

elem_grants(elems, j, grants) ==
    IF j > Len(elems) THEN [err |-> "ok", grants |-> grants]
    ELSE elem_grant(elems, j, grants,
                    Grant_from_elem(elems[j], Grantee_from_elem(elems[j].grantee)))

from_elem_acl(elem, g) ==
    IF g.err # "ok" THEN [err |-> g.err, acl |-> None]
    ELSE [err |-> "ok", acl |-> ACL(Owner(elem.owner.id, elem.owner.name), g.grants)]

from_elem(elem) == from_elem_acl(elem, elem_grants(elem.grants, 1, <<>>))

\* Encoding, decoding the document, and encoding what was decoded.
NoXml == [done |-> FALSE, doc |-> NoBody, err |-> "", acl |-> None, redoc |-> NoBody]

xml_round_trip_decoded(doc, d) ==
    [done |-> TRUE, doc |-> doc, err |-> d.err, acl |-> d.acl,
     redoc |-> IF d.err = "ok" THEN reparsed(ACL_elem(d.acl)) ELSE NoBody]

xml_round_trip_doc(doc) == xml_round_trip_decoded(doc, from_elem(doc))

xml_round_trip(acl) == xml_round_trip_doc(reparsed(ACL_elem(acl)))

\* The parameters of ACL.from_headers that a call can name.
from_headers_params == {"headers", "bucket_owner", "object_owner"}

\* A call of ACL.from_headers with keyword arguments: a keyword that names
\* no parameter is a TypeError.
call_from_headers(headers, bucket_owner, object_owner, keywords) ==
    IF keywords \subseteq from_headers_params
    THEN from_headers(headers, bucket_owner, object_owner)
    ELSE [err |-> "TypeError", acl |-> None]

\* ACL.from_headers has run, with result h.
get_acl_body(body, h) ==
    IF h.err # "ok" THEN h
    ELSE IF h.acl = None
    THEN IF ~body.present THEN [err |-> "MissingSecurityHeader", acl |-> None]
         ELSE IF ~body.valid THEN [err |-> "MalformedACLError", acl |-> None]
         ELSE from_elem(body)
    ELSE IF body.present THEN [err |-> "UnexpectedContent", acl |-> None]
    ELSE h

get_acl(headers, body, bucket_owner, object_owner) ==
    get_acl_body(body,
        call_from_headers(headers, bucket_owner, object_owner, {"as_private"}))

Outcome(err, calls, bucket_acl, object_acl, st) ==
    [err |-> err, calls |-> calls, bucket_acl |-> bucket_acl, object_acl |-> object_acl,
     st |-> st]

\* The backend's answer to the creation of a container that exists already.
create_bucket(st, container) ==
    IF bucket_exists(st, container) THEN [err |-> "BucketAlreadyExists", st |-> st]
    ELSE IF container \notin Buckets THEN [err |-> "InvalidBucketName", st |-> st]
    ELSE [err |-> "ok",
          st |-> [st EXCEPT !.buckets[container] = [exists |-> TRUE, acl |-> None]]]

\* A metadata write on a container: the ACL set on the request, if any,
\* becomes the bucket's ACL.
post_bucket(st, container, bucket_acl) ==
    IF ~bucket_exists(st, container) THEN [err |-> "NoSuchBucket", st |-> st]
    ELSE [err |-> "ok",
          st |-> IF bucket_acl.some
                 THEN [st EXCEPT !.buckets[container].acl = bucket_acl] ELSE st]

\* A write of an object: the object is created or replaced, with the ACL set
\* on the request as its ACL.
put_object(st, container, obj, object_acl) ==
    IF ~bucket_exists(st, container) THEN [err |-> "NoSuchBucket", st |-> st]
    ELSE [err |-> "ok",
          st |-> [st EXCEPT !.objects[obj] = [exists |-> TRUE, acl |-> object_acl]]]

\* A metadata write on an object.
post_object(st, container, obj, object_acl) ==
    IF ~object_exists(st, container, obj) THEN [err |-> "NoSuchKey", st |-> st]
    ELSE [err |-> "ok",
          st |-> IF object_acl.some
                 THEN [st EXCEPT !.objects[obj].acl = object_acl] ELSE st]

\* self.req.bucket_acl = req_acl; return self.req.get_acl_response(app, 'POST')
BucketAclHandler_PUT_post(self, req_acl, calls, post) ==
    Outcome(post.err, calls, req_acl, None, post.st)

\* The metadata write issued whatever the creation call answered.
BucketAclHandler_PUT_putIgnoresError(self, req_acl, calls, put) ==
    BucketAclHandler_PUT_post(self, req_acl,
        Append(calls, Call("POST", self.container, self.obj)),
        post_bucket(put.st, self.container, req_acl))

\* self.req.get_acl_response(app, 'PUT') has run, with result put.
BucketAclHandler_PUT_put(self, req_acl, calls, put) ==
    IF put.err # "ok" THEN Outcome(put.err, calls, None, None, put.st)
    ELSE BucketAclHandler_PUT_post(self, req_acl,
            Append(calls, Call("POST", self.container, self.obj)),
            post_bucket(put.st, self.container, req_acl))

\* ACL.from_headers has run, with result h.
BucketAclHandler_PUT_acl(self, st, h) ==
    IF h.err # "ok" THEN Outcome(h.err, <<>>, None, None, st)
    ELSE BucketAclHandler_PUT_put(self, h.acl,
            <<Call("PUT", self.container, self.obj)>>,
            create_bucket(st, self.container))

BucketAclHandler_PUT(self, st) ==
    BucketAclHandler_PUT_acl(self, st,
        from_headers(self.headers, Owner(self.user_id, self.user_id), NoOwner))

\* b_resp.bucket_acl.owner: the attribute read is the method ACL.owner, and
\* it is not called.
acl_owner_attr(acl) == [py |-> "instancemethod", id |-> acl.owner.id, name |-> acl.owner.name]

\* self.req.object_acl = req_acl
ObjectAclHandler_PUT_acl(st, calls, h) ==
    Outcome(h.err, calls, None, h.acl, st)

\* The object ACL set on the request before the object check is looked at.
ObjectAclHandler_PUT_objectStagedFirst(self, st, calls, b_resp, o) ==
    Outcome(IF o.err = "NoSuchKey" THEN "ok" ELSE o.err, calls \o o.calls, None,
            from_headers(self.headers, Owner(self.user_id, self.user_id),
                         Owner(self.user_id, self.user_id)).acl,
            st)

\* The object check with every failure passed over, not NoSuchKey alone.
ObjectAclHandler_PUT_objectTolerant(self, st, calls, b_resp, o) ==
    ObjectAclHandler_PUT_acl(st, calls \o o.calls,
        from_headers(self.headers, acl_owner_attr(b_resp.bucket_acl),
                     Owner(self.user_id, self.user_id)))

\* The HEAD of the object itself has run, with result o; NoSuchKey is passed over.
ObjectAclHandler_PUT_object(self, st, calls, b_resp, o) ==
    IF o.err \notin {"ok", "NoSuchKey"} THEN Outcome(o.err, calls \o o.calls, None, None, st)
    ELSE ObjectAclHandler_PUT_acl(st, calls \o o.calls,
            from_headers(self.headers, acl_owner_attr(b_resp.bucket_acl),
                         Owner(self.user_id, self.user_id)))

\* The bucket check with its failure passed over.
ObjectAclHandler_PUT_bucketIgnoresError(self, st, calls, b) ==
    ObjectAclHandler_PUT_object(self, st, calls \o b.calls, b.resp,
        _handle_acl(self, st, "HEAD", NONE, NONE, NONE))

\* b_resp = self._handle_acl(app, 'HEAD', obj='') has run, with result b.
ObjectAclHandler_PUT_bucket(self, st, calls, b) ==
    IF b.err # "ok" THEN Outcome(b.err, calls \o b.calls, None, None, st)
    ELSE ObjectAclHandler_PUT_object(self, st, calls \o b.calls, b.resp,
            _handle_acl(self, st, "HEAD", NONE, NONE, NONE))

\* self._check_copy_source(app) has run, with result c.
ObjectAclHandler_PUT_source(self, st, c) ==
    IF c.err # "ok" THEN Outcome(c.err, c.calls, None, None, st)
    ELSE ObjectAclHandler_PUT_bucket(self, st, c.calls,
            _handle_acl(self, st, "HEAD", NONE, "", NONE))

ObjectAclHandler_PUT(self, st) ==
    ObjectAclHandler_PUT_source(self, st, _check_copy_source(self, st))

\* A handler that only runs the generic procedure.
Generic(st, r) == Outcome(r.err, r.calls, None, None, st)

S3AclHandler_GET(self, st) ==
    Generic(st, _handle_acl(self, st, "HEAD", NONE, NONE, "READ_ACP"))

\* req_acl.owner.id: req_acl.owner is the method ACL.owner, which has no
\* attribute id.
req_acl_owner_id(req_acl) == [err |-> "AttributeError", id |-> ""]

\* acl.check_owner(req_acl.owner.id) has run, with result own, oid being
\* what req_acl.owner.id gave.
S3AclHandler_owner(st, calls, is_object, req_acl, oid, own) ==
    IF oid.err # "ok" THEN Outcome(oid.err, calls, None, None, st)
    ELSE IF own # "ok" THEN Outcome(own, calls, None, None, st)
    ELSE IF is_object THEN Outcome("ok", calls, None, req_acl, st)
    ELSE Outcome("ok", calls, req_acl, None, st)

\* get_acl has run, with result g; acl is the ACL of the resource.
S3AclHandler_acl(st, calls, is_object, acl, g) ==
    IF g.err # "ok" THEN Outcome(g.err, calls, None, None, st)
    ELSE S3AclHandler_owner(st, calls, is_object, g.acl, req_acl_owner_id(g.acl),
                            check_owner(acl, req_acl_owner_id(g.acl).id))

\* o_resp = self._handle_acl(app, 'HEAD', permission='WRITE_ACP') has run,
\* with result o; b_resp.bucket_acl.owner is read before get_acl is called.
S3AclHandler_PUT_object(self, st, calls, b_resp, o) ==
    IF o.err # "ok" THEN Outcome(o.err, calls \o o.calls, None, None, st)
    ELSE IF ~b_resp.bucket_acl.some THEN Outcome("AttributeError", calls \o o.calls, None, None, st)
    ELSE S3AclHandler_acl(st, calls \o o.calls, TRUE, o.resp.object_acl,
            get_acl(self.headers, self.body, acl_owner_attr(b_resp.bucket_acl),
                    acl_owner_attr(o.resp.object_acl)))

\* b_resp = self.req.get_acl_response(app, 'HEAD', obj='') has run, with result bf.
S3AclHandler_PUT_bucket(self, st, calls, bf) ==
    IF bf.err # "ok" THEN Outcome(bf.err, calls, None, None, st)
    ELSE S3AclHandler_PUT_object(self, st, calls, bf.resp,
            _handle_acl(self, st, "HEAD", NONE, NONE, "WRITE_ACP"))

S3AclHandler_PUT(self, st) ==
    IF self.obj # ""
    THEN S3AclHandler_PUT_bucket(self, st, <<Call("HEAD", self.container, "")>>,
                                 fetch(st, self.container, ""))
    ELSE Generic(st, _handle_acl(self, st, self.method, NONE, NONE, NONE))

\* resp = self._handle_acl(app, 'HEAD', permission='WRITE_ACP') has run, with result r.
S3AclHandler_POST_bucket(self, st, r) ==
    IF r.err # "ok" THEN Outcome(r.err, r.calls, None, None, st)
    ELSE S3AclHandler_acl(st, r.calls, FALSE, r.resp.bucket_acl,
            get_acl(self.headers, self.body, acl_owner_attr(r.resp.bucket_acl), NoOwner))

S3AclHandler_POST(self, st) ==
    IF self.container # "" /\ self.obj = ""
    THEN S3AclHandler_POST_bucket(self, st,
            _handle_acl(self, st, "HEAD", NONE, NONE, "WRITE_ACP"))
    ELSE Generic(st, _handle_acl(self, st, self.method, NONE, NONE, NONE))

\* A handler method that returns without a check.
Pass(st) == Outcome("ok", <<>>, None, None, st)

\* abort multiupload: the check runs on the bucket the segment container
\* belongs to.
UploadAclHandler_HEAD(self, st) ==
    IF self.method = "DELETE" /\ self.obj # ""
    THEN Generic(st, _handle_acl(self, st, "HEAD", drop_suffix_len(self.container), NONE, NONE))
    ELSE Pass(st)

\* Complete upload
UploadAclHandler_PUT(self, st) ==
    IF self.container # "" /\ self.obj = ""
    THEN Generic(st, _handle_acl(self, st, "PUT", NONE, NONE, NONE))
    ELSE Pass(st)

\* self.method is not 'DELETE'
is_not_DELETE(self) == ~(self.method = "DELETE" /\ self.interned)

\* List parts / Complete Multiupload
UploadAclHandler_GET(self, st) ==
    IF self.obj # "" /\ is_not_DELETE(self)
    THEN Generic(st, _handle_acl(self, st, "GET", NONE, "", NONE))
    ELSE Pass(st)

UploadAclHandler_DELETE(self, st) == Pass(st)

\* A DELETE entry point that runs the generic procedure.
MultiObjectDeleteAclHandler_DELETEChecked(self, st) ==
    Generic(st, _handle_acl(self, st, "DELETE", NONE, NONE, NONE))

\* Only bucket write acl is required: pass
MultiObjectDeleteAclHandler_DELETE(self, st) == Pass(st)

\* self._handle_acl(app, 'PUT') has run, with result r, after the calls of
\* the copy-source check.
PartAclHandler_PUT_checked(st, calls, r) ==
    Outcome(r.err, calls \o r.calls, None, None, st)

\* The copy-source check with its failure passed over.
PartAclHandler_PUT_sourceIgnoresError(self, st, c) ==
    PartAclHandler_PUT_checked(st, c.calls, _handle_acl(self, st, "PUT", NONE, NONE, NONE))

\* self._check_copy_source(app) has run, with result c.
PartAclHandler_PUT_source(self, st, c) ==
    IF c.err # "ok" THEN Outcome(c.err, c.calls, None, None, st)
    ELSE PartAclHandler_PUT_checked(st, c.calls,
            _handle_acl(self, st, "PUT", NONE, NONE, NONE))

PartAclHandler_PUT(self, st) ==
    PartAclHandler_PUT_source(self, st, _check_copy_source(self, st))

\* For _check_upload_info: pass
PartAclHandler_HEAD(self, st) == Pass(st)

\* Initiate Multipart Uploads (put +segment container)
UploadsAclHandler_PUT(self, st) ==
    IF self.obj = ""
    THEN Generic(st, _handle_acl(self, st, "PUT", drop_suffix_len(self.container), NONE, NONE))
    ELSE Pass(st)

\* The methods each handler class defines (hasattr(self, method)).
handler_methods ==
    [ BaseAclHandler |-> {},
      BucketAclHandler |-> {"PUT"},
      ObjectAclHandler |-> {"PUT"},
      S3AclHandler |-> {"GET", "PUT", "POST"},
      MultiObjectDeleteAclHandler |-> {"DELETE"},
      PartAclHandler |-> {"PUT", "HEAD"},
      UploadsAclHandler |-> {"PUT"},
      UploadAclHandler |-> {"HEAD", "PUT", "GET", "DELETE"} ]

\* getattr(self, method)(app), or the generic procedure.
handle_acl_method(handler, self, st, method) ==
    IF method \in handler_methods[handler]
    THEN CASE handler = "BucketAclHandler" -> BucketAclHandler_PUT(self, st)
           [] handler = "ObjectAclHandler" -> ObjectAclHandler_PUT(self, st)
           [] handler = "S3AclHandler" /\ method = "GET" -> S3AclHandler_GET(self, st)
           [] handler = "S3AclHandler" /\ method = "PUT" -> S3AclHandler_PUT(self, st)
           [] handler = "S3AclHandler" /\ method = "POST" -> S3AclHandler_POST(self, st)
           [] handler = "MultiObjectDeleteAclHandler" -> MultiObjectDeleteAclHandler_DELETE(self, st)
           [] handler = "PartAclHandler" /\ method = "PUT" -> PartAclHandler_PUT(self, st)
           [] handler = "PartAclHandler" /\ method = "HEAD" -> PartAclHandler_HEAD(self, st)
           [] handler = "UploadsAclHandler" -> UploadsAclHandler_PUT(self, st)
           [] handler = "UploadAclHandler" /\ method = "HEAD" -> UploadAclHandler_HEAD(self, st)
           [] handler = "UploadAclHandler" /\ method = "PUT" -> UploadAclHandler_PUT(self, st)
           [] handler = "UploadAclHandler" /\ method = "GET" -> UploadAclHandler_GET(self, st)
           [] handler = "UploadAclHandler" /\ method = "DELETE" -> UploadAclHandler_DELETE(self, st)
    ELSE Generic(st, _handle_acl(self, st, method, NONE, NONE, NONE))

handle_acl(handler, self, st, method) ==
    handle_acl_method(handler, self, st,
                      IF method \in {NONE, ""} THEN self.method ELSE method)

(***************************************************************************)
(* Requests.  Each action is one request: the controller builds the        *)
(* handler for the request, calls handle_acl, and when the handler returns *)
(* normally performs the backend operation of the request, which persists  *)
(* the ACL the handler set on the request.                                 *)
(*   req  [kind, handler, self, err, calls, written, bucket_acl,           *)
(*         object_acl, pre]    pre: the store when the request arrived     *)
(***************************************************************************)
\* The variables of SpecCheck and SpecHeaders when no call has been made.
NoCheck ==
    [acl |-> None, user_id |-> "", permission |-> "", outcome |-> "none", xml |-> NoXml,
     grant |-> [via |-> "", permission |-> "", err |-> "", grant |-> NoGrant]]

NoHeaders ==
    [headers |-> <<>>, bucket_owner |-> NoOwner, object_owner |-> NoOwner,
     called |-> FALSE, result |-> [err |-> "ok", acl |-> None]]

EmptyStore == [buckets |-> [b \in Buckets |-> Absent], objects |-> [o \in Objects |-> Absent]]

\* interned: the method string of the request is the same object as the
\* literal 'DELETE' of the module when it equals it (what `is` tests).
Self(method, user_id, container, obj, headers, body) ==
    [method |-> method, user_id |-> user_id, container |-> container, obj |-> obj,
     headers |-> headers, body |-> body, interned |-> TRUE]

NoReq ==
    [kind |-> "none", handler |-> "", self |-> Self("", "", "", "", <<>>, NoBody),
     method |-> NONE,
     err |-> "", calls |-> <<>>, written |-> FALSE, bucket_acl |-> None,
     object_acl |-> None, pre |-> EmptyStore]

\* A bucket PUT in flight: pc is the statement of BucketAclHandler.PUT
\* the handler is at; created: its creation call succeeded.
Put(pc, headers) ==
    [pc |-> pc, headers |-> headers, req_acl |-> None, bucket_acl |-> None,
     created |-> FALSE, err |-> "", calls |-> <<>>]

NoInflight == [u \in UserIds |-> Put("none", <<>>)]

Header(key, text, parts) == [key |-> key, value |-> Value(text, parts)]

\* The ACL headers of the requests of the model: of bucket PUT, of object
\* PUT, and of ACL PUT.
BucketHeaders ==
    { <<>>,
      << Header(AclKey, "private", <<>>) >>,
      << Header(AclKey, "log-delivery-write", <<>>) >>,
      << Header(Key("x-amz-grant-", "read-acp"), "", <<Spec_(TRUE, "id", "\"", "U2")>>) >>,
      << Header(Key("x-amz-grant-", "write"), "", <<Spec_(TRUE, "id", "\"", "U2")>>) >>,
      << Header(AclKey, "bogus", <<>>) >> }

ObjectHeaders ==
    { <<>>,
      << Header(AclKey, "private", <<>>) >>,
      << Header(Key("x-amz-grant-", "full-control"), "", <<Spec_(TRUE, "id", "", "U2")>>) >>,
      << Header(Key("x-amz-grant-", "read"), "", <<Spec_(TRUE, "uri", "\"", "")>>) >> }

AclHeaders ==
    { <<>>,
      << Header(Key("x-amz-grant-", "read-acp"), "", <<Spec_(TRUE, "id", "\"", "U2")>>) >>,
      << Header(AclKey, "private", <<>>),
         Header(Key("x-amz-grant-", "read"), "", <<Spec_(TRUE, "id", "", "U1")>>) >> }

CopySources == {"/bucket/src", "ghost/src"}

WithCopySource(headers, src_path) == Append(headers, Header(CopySourceKey, src_path, <<>>))

\* The bodies of the ACL PUT requests of the model.
RequestBodies ==
    { NoBody,
      [present |-> TRUE, valid |-> FALSE, owner |-> NoOwner, grants |-> <<>>] }
    \cup { [present |-> TRUE, valid |-> TRUE, owner |-> Owner(u, u),
            grants |-> <<[grantee |-> XmlUser(u, u), permission |-> "FULL_CONTROL"]>>] :
            u \in UserIds }

Handled(kind, handler, self, method, out, written, post) ==
    /\ req' = [kind |-> kind, handler |-> handler, self |-> self, method |-> method,
               err |-> out.err,
               calls |-> out.calls, written |-> written, bucket_acl |-> out.bucket_acl,
               object_acl |-> out.object_acl, pre |-> store]
    /\ store' = post
    /\ UNCHANGED <<chk, hdr, inflight>>

\* The backend operation of the request, which the controller performs when
\* the handler returned normally.
backend(kind, self, out) ==
    CASE kind = "PutObject" ->
            put_object(out.st, self.container, self.obj, out.object_acl).st
      [] kind = "PutAcl" /\ self.obj = "" ->
            post_bucket(out.st, self.container, out.bucket_acl).st
      [] kind = "PutAcl" /\ self.obj # "" ->
            post_object(out.st, self.container, self.obj, out.object_acl).st
      [] kind = "DeleteObject" /\ object_exists(out.st, self.container, self.obj) ->
            [out.st EXCEPT !.objects[self.obj] = Absent]
      [] OTHER -> out.st

\* A request that ends with a backend operation of the controller.
Written(kind, handler, self, method, out) ==
    IF out.err = "ok"
    THEN Handled(kind, handler, self, method, out, TRUE, backend(kind, self, out))
    ELSE Handled(kind, handler, self, method, out, FALSE, out.st)

\* st: the backend's state when the request arrives; method: the method
\* argument of handle_acl, NONE when it is not given.
Write(kind, handler, self, st, method) ==
    Written(kind, handler, self, method, handle_acl(handler, self, st, method))

\* A request whose backend operations are all issued by the handler, or
\* that reads only.
Unwritten(kind, handler, self, method, out) ==
    Handled(kind, handler, self, method, out, FALSE, out.st)

Handle(kind, handler, self, st, method) ==
    Unwritten(kind, handler, self, method, handle_acl(handler, self, st, method))

\* PUT /bucket
PutBucket ==
    \E u \in UserIds, h \in BucketHeaders :
        LET self == Self("PUT", u, "bucket", "", h, NoBody)
        IN  Handle("PutBucket", "BucketAclHandler", self, store, NONE)

\* The destination container of an object PUT with the headers sent to
\* it; no bucket "nothing" exists.
PutObjectTargets ==
    { <<"bucket", h>> :
        h \in ObjectHeaders \cup {WithCopySource(h0, c) : h0 \in ObjectHeaders, c \in CopySources} }
    \cup { <<"nothing", h>> : h \in {<<>>} \cup {WithCopySource(<<>>, c) : c \in CopySources} }

\* PUT /bucket/obj, with or without x-amz-copy-source
PutObject ==
    \E u \in UserIds, o \in Objects, t \in PutObjectTargets :
        LET self == Self("PUT", u, t[1], o, t[2], NoBody)
        IN  Write("PutObject", "ObjectAclHandler", self, store, NONE)

\* GET /bucket?acl, GET /bucket/obj?acl
GetAcl ==
    \E u \in UserIds, o \in {"", "obj"} :
        LET self == Self("GET", u, "bucket", o, <<>>, NoBody)
        IN  Handle("GetAcl", "S3AclHandler", self, store, NONE)

\* PUT /bucket?acl (backend POST on the container), PUT /bucket/obj?acl
\* (backend PUT on the object)
PutAcl ==
    \E u \in UserIds, o \in {"", "obj"}, h \in AclHeaders, b \in RequestBodies :
        LET self == Self("PUT", u, "bucket", o, h, b)
        IN  Write("PutAcl", "S3AclHandler", self, store, IF o = "" THEN "POST" ELSE "PUT")

\* DELETE /bucket/obj
DeleteObject ==
    \E u \in UserIds, o \in Objects :
        LET self == Self("DELETE", u, "bucket", o, <<>>, NoBody)
        IN  Write("DeleteObject", "BaseAclHandler", self, store, NONE)

\* GET and HEAD of a bucket or an object
Read ==
    \E u \in UserIds, o \in {"", "obj"}, m \in {"GET", "HEAD"} :
        LET self == Self(m, u, "bucket", o, <<>>, NoBody)
        IN  Handle("Read", "BaseAclHandler", self, store, NONE)

\* DELETE /bucket/obj?uploadId=...: the HEAD of the upload in the segment
\* container, which carries the check of an abort.
AbortUpload ==
    \E u \in UserIds :
        LET self == Self("DELETE", u, "bucket+segments", "obj", <<>>, NoBody)
        IN  Handle("AbortUpload", "UploadAclHandler", self, store, "HEAD")

Init ==
    /\ chk = NoCheck
    /\ hdr = NoHeaders
    /\ store = EmptyStore
    /\ req = NoReq
    /\ inflight = NoInflight

Next ==
    \/ PutBucket
    \/ PutObject
    \/ GetAcl
    \/ PutAcl
    \/ DeleteObject
    \/ Read
    \/ AbortUpload

Spec == Init /\ [][Next]_vars

\* The ACL stored for the target of a request on bucket "bucket".
TargetAcl(st, obj) == IF obj = "" THEN st.buckets["bucket"].acl ELSE st.objects[obj].acl

GrantReadAcpU2 ==
    << Header(Key("x-amz-grant-", "read-acp"), "", <<Spec_(TRUE, "id", "\"", "U2")>>) >>

\* What an ACL-subresource GET of the bucket by identity u gives on store st.
GetBucketAcl(st, u) ==
    handle_acl("S3AclHandler", Self("GET", u, "bucket", "", <<>>, NoBody), st, NONE).err

\* C7: on a bucket of U1 with the private ACL, an ACL-subresource GET by U2
\* fails with AccessDenied; once U1 has set the bucket ACL with the single
\* header x-amz-grant-read-acp: id="U2", the request succeeds, the bucket's
\* ACL has owner U1 and exactly the grant (READ_ACP, CanonicalUser(U2)), and
\* a GET by U2 succeeds.
C7_GrantReadAcpScenario ==
    /\ (/\ req.kind = "GetAcl" /\ req.self.user_id = "U2" /\ req.self.obj = ""
        /\ req.pre.buckets["bucket"] =
              [exists |-> TRUE,
               acl |-> ACL(Owner("U1", "U1"), <<Grant(User("U1"), "FULL_CONTROL")>>)])
        => req.err = "AccessDenied"
    /\ (/\ req.kind = "PutAcl" /\ req.self.user_id = "U1" /\ req.self.obj = ""
        /\ req.self.headers = GrantReadAcpU2 /\ req.self.body = NoBody
        /\ req.pre.buckets["bucket"] =
              [exists |-> TRUE,
               acl |-> ACL(Owner("U1", "U1"), <<Grant(User("U1"), "FULL_CONTROL")>>)])
        => /\ req.err = "ok"
           /\ store.buckets["bucket"].acl.owner.id = "U1"
           /\ store.buckets["bucket"].acl.grants = <<Grant(User("U2"), "READ_ACP")>>
           /\ GetBucketAcl(store, "U2") = "ok"

\* The copy source of a request, as [bucket, obj].
CopySource(self) == split_copy_source(get_header(self.headers, CopySourceKey).text)

\* Identity u holds a grant of one of the permissions ps in the ACL.
HoldsGrant(acl, u, ps) ==
    \E i \in 1..Len(acl.grants) :
        /\ acl.grants[i].permission \in ps
        /\ contains(acl.grants[i].grantee, u) = "true"

\* C8: an object PUT with x-amz-copy-source by an identity that is neither
\* the owner of the source object nor holder of a READ or FULL_CONTROL grant
\* on it fails with AccessDenied at the first step: only the source has been
\* fetched, no object ACL is set on the request, no write is issued and the
\* store is as it was.
C8_CopySourceDenied ==
    (/\ req.kind = "PutObject"
     /\ has_header(req.self.headers, CopySourceKey)
     /\ object_exists(req.pre, CopySource(req.self).bucket, CopySource(req.self).obj)
     /\ req.pre.objects[CopySource(req.self).obj].acl.some
     /\ req.pre.objects[CopySource(req.self).obj].acl.owner.id # req.self.user_id
     /\ ~HoldsGrant(req.pre.objects[CopySource(req.self).obj].acl, req.self.user_id,
                    {"READ", "FULL_CONTROL"}))
    => /\ req.err = "AccessDenied"
       /\ req.calls = <<Call("HEAD", CopySource(req.self).bucket, CopySource(req.self).obj)>>
       /\ req.object_acl = None
       /\ ~req.written
       /\ store = req.pre

\* C9: an ACL-subresource PUT never changes the owner id of the stored ACL
\* of its target, and one whose new ACL names an owner other than the
\* current one is rejected with AccessDenied, no ACL being set on the
\* request.
C9_OwnerImmutable ==
    (req.kind = "PutAcl" /\ TargetAcl(req.pre, req.self.obj).some) =>
        /\ TargetAcl(store, req.self.obj).owner.id = TargetAcl(req.pre, req.self.obj).owner.id
        /\ (/\ req.self.body.present /\ req.self.body.valid
            /\ req.self.headers = <<>>
            /\ req.self.body.owner.id # TargetAcl(req.pre, req.self.obj).owner.id)
            => /\ req.err = "AccessDenied"
               /\ req.bucket_acl = None
               /\ req.object_acl = None

\* The headers carry ACL values: x-amz-acl or an x-amz-grant-* header.
HasAclHeaders(headers) ==
    has_header(headers, AclKey) \/ \E i \in 1..Len(headers) : startswith_grant(headers[i].key)

\* What get_acl gives for the headers and body of a bucket ACL PUT that
\* passed its WRITE_ACP check, against what the four-outcome rule gives.
GetAclOfRequest ==
    get_acl(req.self.headers, req.self.body,
            acl_owner_attr(req.pre.buckets["bucket"].acl), NoOwner)

HeadersAclOfRequest ==
    from_headers(req.self.headers, acl_owner_attr(req.pre.buckets["bucket"].acl), NoOwner)

\* C11: get_acl has exactly four outcomes. ACL headers and no body: the ACL
\* built from the headers; no ACL headers and a body: the ACL parsed from the
\* body, MalformedACLError when the body is not a valid ACL document; ACL
\* headers and a body: UnexpectedContent; neither: MissingSecurityHeader.
\* Stated on bucket ACL PUTs by the bucket's owner, which reach get_acl, and
\* whose failure is then the failure of get_acl.
C11_GetAclFourOutcomes ==
    (/\ req.kind = "PutAcl" /\ req.self.obj = ""
     /\ bucket_exists(req.pre, "bucket")
     /\ req.pre.buckets["bucket"].acl.some
     /\ req.pre.buckets["bucket"].acl.owner.id = req.self.user_id)
    => /\ GetAclOfRequest.err # "ok" => req.err = GetAclOfRequest.err
       /\ (HasAclHeaders(req.self.headers) /\ ~req.self.body.present)
            => GetAclOfRequest = HeadersAclOfRequest
       /\ (~HasAclHeaders(req.self.headers) /\ req.self.body.present /\ req.self.body.valid)
            => GetAclOfRequest = from_elem(req.self.body)
       /\ (~HasAclHeaders(req.self.headers) /\ req.self.body.present /\ ~req.self.body.valid)
            => GetAclOfRequest.err = "MalformedACLError"
       /\ (HasAclHeaders(req.self.headers) /\ req.self.body.present)
            => GetAclOfRequest.err = "UnexpectedContent"
       /\ (~HasAclHeaders(req.self.headers) /\ ~req.self.body.present)
            => GetAclOfRequest.err = "MissingSecurityHeader"

\* The bucket of the model exists and has an ACL when the request arrives.
BucketHadAcl == bucket_exists(req.pre, "bucket") /\ req.pre.buckets["bucket"].acl.some

\* The outcome of the request is that of the check of permission p for the
\* requester on ACL acl, after the one fetch of (container, obj).
CheckedOn(container, obj, acl, p) ==
    /\ req.calls = <<Call("HEAD", container, obj)>>
    /\ req.err = check_permission(acl, req.self.user_id, p)

\* C12: the generic procedure resolves (GET, GET, bucket) to READ on the
\* bucket, (PUT, HEAD, object) to WRITE on the object, and (DELETE, HEAD,
\* object) to WRITE on the bucket's ACL: an abort of a multipart upload
\* fetches and checks the bucket, not the object.
C12_PolicyTriples ==
    /\ (req.kind = "Read" /\ req.self.method = "GET" /\ req.self.obj = "" /\ BucketHadAcl)
        => CheckedOn("bucket", "", req.pre.buckets["bucket"].acl, "READ")
    /\ (/\ req.kind = "PutObject" /\ ~has_header(req.self.headers, CopySourceKey)
        /\ req.self.container = "bucket" /\ BucketHadAcl
        /\ check_permission(req.pre.buckets["bucket"].acl, req.self.user_id, "WRITE") = "ok"
        /\ req.pre.objects[req.self.obj].exists /\ req.pre.objects[req.self.obj].acl.some)
        => /\ req.calls = <<Call("HEAD", "bucket", ""), Call("HEAD", "bucket", req.self.obj)>>
           /\ check_permission(req.pre.objects[req.self.obj].acl, req.self.user_id, "WRITE") # "ok"
                => req.err = check_permission(req.pre.objects[req.self.obj].acl,
                                              req.self.user_id, "WRITE")
    /\ (req.kind = "AbortUpload" /\ BucketHadAcl)
        => CheckedOn("bucket", "", req.pre.buckets["bucket"].acl, "WRITE")

\* An abort by a user who may write the object of that name but not the
\* bucket is denied.
C12_Witness ==
    /\ req.kind = "AbortUpload" /\ BucketHadAcl
    /\ req.pre.objects["obj"].exists /\ req.pre.objects["obj"].acl.some
    /\ check_permission(req.pre.objects["obj"].acl, req.self.user_id, "WRITE") = "ok"
    /\ req.err = "AccessDenied"
    /\ req.calls = <<Call("HEAD", "bucket", "")>>

\* The request is an object PUT with a copy source.
IsCopy == req.kind = "PutObject" /\ has_header(req.self.headers, CopySourceKey)

\* The fetch of the copy source of the request.
CopySourceCall == Call("HEAD", CopySource(req.self).bucket, CopySource(req.self).obj)

\* Nothing was set on the request, nothing was written.
NothingStaged ==
    /\ req.object_acl = None
    /\ req.bucket_acl = None
    /\ ~req.written
    /\ store = req.pre

\* C16: an object PUT with x-amz-copy-source whose source object is absent,
\* whether or not the source bucket exists, fails with NoSuchKey; the source
\* bucket is not fetched, no object ACL is set, nothing is written.
C16_CopySourceAbsent ==
    (/\ IsCopy
     /\ ~object_exists(req.pre, CopySource(req.self).bucket, CopySource(req.self).obj))
    => /\ req.err = "NoSuchKey"
       /\ req.calls = <<CopySourceCall>>
       /\ NothingStaged

\* The source bucket does not exist, the destination could have been
\* written by the requester.
C16_Witness ==
    /\ IsCopy
    /\ ~bucket_exists(req.pre, CopySource(req.self).bucket)
    /\ BucketHadAcl /\ req.self.container = "bucket"
    /\ check_permission(req.pre.buckets["bucket"].acl, req.self.user_id, "WRITE") = "ok"
    /\ req.err = "NoSuchKey"

\* The copy source of the request, when it has one, exists and the
\* requester may read it.
CopySourceReadable ==
    /\ object_exists(req.pre, CopySource(req.self).bucket, CopySource(req.self).obj)
    /\ req.pre.objects[CopySource(req.self).obj].acl.some
    /\ check_permission(req.pre.objects[CopySource(req.self).obj].acl,
                        req.self.user_id, "READ") = "ok"

\* C17: an object PUT into a bucket that does not exist fails with
\* NoSuchBucket, also with a copy source that exists and that the requester
\* may read; the destination object is not fetched and no object ACL is set.
C17_DestinationBucketAbsent ==
    (/\ req.kind = "PutObject"
     /\ ~bucket_exists(req.pre, req.self.container)
     /\ IsCopy => CopySourceReadable)
    => /\ req.err = "NoSuchBucket"
       /\ req.calls = (IF IsCopy THEN <<CopySourceCall>> ELSE <<>>)
                        \o <<Call("HEAD", req.self.container, "")>>
       /\ NothingStaged

C17_Witness ==
    /\ IsCopy /\ CopySourceReadable
    /\ req.self.container = "nothing"
    /\ req.err = "NoSuchBucket"

\* The WRITE checks of an object PUT on the store it found.
BucketWrite == check_permission(req.pre.buckets["bucket"].acl, req.self.user_id, "WRITE")

ObjectWrite ==
    acl_check_permission(req.pre.objects[req.self.obj].acl, req.self.user_id, "WRITE")

\* C20: an object PUT without copy source sets an object ACL, and is
\* written, only if WRITE is allowed on the destination bucket and, when the
\* destination object exists, on the ACL of that object; an absent
\* destination object does not fail the request; a check that fails fails
\* the request with its error, AccessDenied for a denial, and nothing is
\* set or written.
C20_ObjectPutStaging ==
    (req.kind = "PutObject" /\ ~IsCopy /\ req.self.container = "bucket" /\ BucketHadAcl)
    => /\ (req.object_acl # None \/ req.written)
            => /\ BucketWrite = "ok"
               /\ req.pre.objects[req.self.obj].exists => ObjectWrite = "ok"
       /\ (BucketWrite = "ok" /\ ~req.pre.objects[req.self.obj].exists)
            => /\ req.err # "NoSuchKey"
               /\ ~HasAclHeaders(req.self.headers) => (req.err = "ok" /\ req.written)
       /\ BucketWrite # "ok" => (req.err = BucketWrite /\ NothingStaged)
       /\ (BucketWrite = "ok" /\ req.pre.objects[req.self.obj].exists /\ ObjectWrite # "ok")
            => (req.err = ObjectWrite /\ NothingStaged)

\* The bucket may be written by the requester, the object that exists may
\* not: denied, nothing set.
C20_Witness ==
    /\ req.kind = "PutObject" /\ ~IsCopy /\ req.self.container = "bucket" /\ BucketHadAcl
    /\ BucketWrite = "ok"
    /\ req.pre.objects[req.self.obj].exists
    /\ ObjectWrite = "AccessDenied"
    /\ req.err = "AccessDenied"

\* What from_headers gives for the headers of the bucket PUT of the request.
BucketPutAcl == from_headers(req.self.headers, Owner(req.self.user_id, req.self.user_id), NoOwner)

\* C21: a bucket PUT builds the ACL from the headers, then issues the
\* creation call, then the metadata write of the new ACL, each step only if
\* the one before succeeded: with a header error no backend call is issued;
\* when the creation fails because the bucket exists no metadata write is
\* issued; the ACL of a bucket that exists is never replaced by a bucket PUT.
C21_BucketPutOrder ==
    req.kind = "PutBucket" =>
        /\ BucketPutAcl.err # "ok"
            => (req.err = BucketPutAcl.err /\ req.calls = <<>> /\ store = req.pre)
        /\ (BucketPutAcl.err = "ok" /\ bucket_exists(req.pre, "bucket"))
            => /\ req.err = "BucketAlreadyExists"
               /\ req.calls = <<Call("PUT", "bucket", "")>>
               /\ req.bucket_acl = None
               /\ store = req.pre
        /\ (BucketPutAcl.err = "ok" /\ ~bucket_exists(req.pre, "bucket"))
            => /\ req.err = "ok"
               /\ req.calls = <<Call("PUT", "bucket", ""), Call("POST", "bucket", "")>>
               /\ req.bucket_acl = BucketPutAcl.acl
               /\ store.buckets["bucket"] = [exists |-> TRUE, acl |-> BucketPutAcl.acl]
        /\ bucket_exists(req.pre, "bucket") => store.buckets["bucket"] = req.pre.buckets["bucket"]

\* A bucket PUT with ACL headers by another identity on a bucket that has
\* an ACL: the creation call is refused and the ACL stays.
C21_Witness ==
    /\ req.kind = "PutBucket" /\ BucketHadAcl
    /\ BucketPutAcl.err = "ok" /\ BucketPutAcl.acl.some
    /\ BucketPutAcl.acl.owner.id # req.pre.buckets["bucket"].acl.owner.id
    /\ req.err = "BucketAlreadyExists"
    /\ req.calls = <<Call("PUT", "bucket", "")>>
    /\ store.buckets["bucket"].acl = req.pre.buckets["bucket"].acl

\* C28: whenever a handler invocation, of any handler and any method, ends
\* with AccessDenied, neither bucket_acl nor object_acl has been set on the
\* request and the handler has issued metadata fetches only, no PUT and no
\* POST; nothing is written.
C28_DenialLeavesNoTrace ==
    req.err = "AccessDenied" =>
        /\ req.bucket_acl = None
        /\ req.object_acl = None
        /\ \A i \in 1..Len(req.calls) : req.calls[i].method = "HEAD"
        /\ ~req.written
        /\ store = req.pre

\* An object PUT with ACL headers that passed the copy-source check and the
\* bucket check and is denied on the object that exists.
C28_Witness ==
    /\ req.kind = "PutObject" /\ IsCopy
    /\ HasAclHeaders(req.self.headers)
    /\ Len(req.calls) = 3
    /\ req.err = "AccessDenied"

(***************************************************************************)
(* Bucket PUTs in parallel: SpecBucketPut runs BucketAclHandler.PUT for    *)
(* the two identities on the same new bucket, one statement at a time,     *)
(* each request with its own handler; the backend serves one call at a     *)
(* time, and its metadata write may fail.                                  *)
(***************************************************************************)
BucketPutInit ==
    /\ chk = NoCheck
    /\ hdr = NoHeaders
    /\ store = EmptyStore
    /\ req = NoReq
    /\ inflight \in [UserIds -> {Put("from_headers", h) : h \in BucketHeaders}]

\* The handler of u moves on: its fields as given, the rest as they were.
BucketPutStep(u, put, st) ==
    /\ inflight' = [inflight EXCEPT ![u] = put]
    /\ store' = st
    /\ UNCHANGED <<chk, hdr, req>>

Raised(put, err) == [put EXCEPT !.pc = "done", !.err = err]

\* req_acl = ACL.from_headers(self.req.headers, Owner(self.user_id, self.user_id))
BucketPut_from_headers(u) ==
    /\ inflight[u].pc = "from_headers"
    /\ LET h == from_headers(inflight[u].headers, Owner(u, u), NoOwner)
       IN  BucketPutStep(u,
                IF h.err # "ok" THEN Raised(inflight[u], h.err)
                ELSE [inflight[u] EXCEPT !.pc = "PUT", !.req_acl = h.acl],
                store)

\* The creation call answered as if the bucket never existed.
BucketPut_createIgnoresError(u) ==
    /\ inflight[u].pc = "PUT"
    /\ BucketPutStep(u,
            [inflight[u] EXCEPT !.pc = "POST", !.created = TRUE,
                                !.calls = Append(@, Call("PUT", "bucket", ""))],
            [store EXCEPT !.buckets["bucket"].exists = TRUE])

\* self.req.get_acl_response(app, 'PUT')
BucketPut_create(u) ==
    /\ inflight[u].pc = "PUT"
    /\ LET put == create_bucket(store, "bucket")
           called == [inflight[u] EXCEPT !.calls = Append(@, Call("PUT", "bucket", ""))]
       IN  BucketPutStep(u,
                IF put.err # "ok" THEN Raised(called, put.err)
                ELSE [called EXCEPT !.pc = "POST", !.created = TRUE],
                put.st)

\* self.req.bucket_acl = req_acl; return self.req.get_acl_response(app, 'POST')
BucketPut_post(u) ==
    /\ inflight[u].pc = "POST"
    /\ LET post == post_bucket(store, "bucket", inflight[u].req_acl)
       IN  BucketPutStep(u,
                [inflight[u] EXCEPT !.pc = "done", !.err = post.err,
                                    !.bucket_acl = inflight[u].req_acl,
                                    !.calls = Append(@, Call("POST", "bucket", ""))],
                post.st)

\* The metadata write that fails, with the bucket removed again.
BucketPut_post_failsRollsBack(u) ==
    /\ inflight[u].pc = "POST"
    /\ BucketPutStep(u,
            [inflight[u] EXCEPT !.pc = "done", !.err = "ServiceUnavailable",
                                !.bucket_acl = inflight[u].req_acl,
                                !.calls = Append(@, Call("POST", "bucket", ""))],
            [store EXCEPT !.buckets["bucket"] = Absent])

\* The same statement when the backend fails the metadata write: the
\* exception leaves the handler.
BucketPut_post_fails(u) ==
    /\ inflight[u].pc = "POST"
    /\ BucketPutStep(u,
            [inflight[u] EXCEPT !.pc = "done", !.err = "ServiceUnavailable",
                                !.bucket_acl = inflight[u].req_acl,
                                !.calls = Append(@, Call("POST", "bucket", ""))],
            store)

BucketPutNext ==
    \E u \in UserIds :
        \/ BucketPut_from_headers(u)
        \/ BucketPut_create(u)
        \/ BucketPut_post(u)
        \/ BucketPut_post_fails(u)

SpecBucketPut == BucketPutInit /\ [][BucketPutNext]_vars

\* The handler of u has issued the metadata write.
IssuedPost(u) == \E i \in 1..Len(inflight[u].calls) : inflight[u].calls[i].method = "POST"

\* C22: when the creation call of a bucket PUT has succeeded and its
\* metadata write fails, the handler ends with that failure after the one
\* creation call and the one metadata write, none repeated and none undone,
\* and the bucket exists with no ACL.
C22_CreationNotAtomic ==
    \A u \in UserIds :
        (inflight[u].created /\ IssuedPost(u) /\ inflight[u].err # "ok") =>
            /\ inflight[u].pc = "done"
            /\ inflight[u].err = "ServiceUnavailable"
            /\ inflight[u].calls = <<Call("PUT", "bucket", ""), Call("POST", "bucket", "")>>
            /\ store.buckets["bucket"] = [exists |-> TRUE, acl |-> None]

\* The bucket PUT of U1 asked for an ACL, created the bucket and failed in
\* the metadata write; the PUT of U2 has ended too: the bucket is left
\* without ACL.
C22_Witness ==
    /\ inflight["U1"].created /\ IssuedPost("U1")
    /\ inflight["U1"].err = "ServiceUnavailable"
    /\ inflight["U1"].req_acl.some
    /\ inflight["U2"].pc = "done"
    /\ store.buckets["bucket"] = [exists |-> TRUE, acl |-> None]

\* C30: of two bucket PUTs for the same new bucket by different identities,
\* interleaved in any order, at most one issues the metadata write, and an
\* ACL installed on the bucket is the one of the request whose creation call
\* succeeded, with that identity as owner; the ACL of the other request is
\* never installed.
C30_OneCreatorInstalls ==
    /\ Cardinality({u \in UserIds : inflight[u].created}) <= 1
    /\ \A u \in UserIds : IssuedPost(u) => inflight[u].created
    /\ store.buckets["bucket"].acl.some =>
        \E u \in UserIds :
            /\ inflight[u].created
            /\ store.buckets["bucket"].acl = inflight[u].req_acl
            /\ store.buckets["bucket"].acl.owner.id = u

\* U2 built its ACL first, U1 created the bucket and installed its ACL,
\* the creation call of U2 was refused.
C30_Witness ==
    /\ inflight["U1"].pc = "done" /\ inflight["U1"].err = "ok"
    /\ inflight["U2"].pc = "done" /\ inflight["U2"].err = "BucketAlreadyExists"
    /\ inflight["U2"].req_acl.some
    /\ inflight["U2"].calls = <<Call("PUT", "bucket", "")>>
    /\ store.buckets["bucket"].acl.some
    /\ store.buckets["bucket"].acl.owner.id = "U1"

(***************************************************************************)
(* The generic procedure on arbitrary calls: SpecGeneric draws a store and *)
(* calls handle_acl of the base handler, for every request method, every   *)
(* method argument and both resource kinds.                                *)
(***************************************************************************)
Methods == {"GET", "HEAD", "PUT", "POST", "DELETE"}

\* ACLs that requests with grant headers leave on a bucket of U1 and on an
\* object of U2.
GenericBucketAcls ==
    { ACL(Owner("U1", "U1"), <<Grant(User("U1"), "FULL_CONTROL")>>),
      ACL(Owner("U1", "U1"), <<Grant(User("U2"), "FULL_CONTROL")>>),
      ACL(Owner("U1", "U1"), <<Grant(AllUsers, "READ")>>) }

GenericObjectAcls == { ACL(Owner("U2", "U2"), <<Grant(User("U1"), "WRITE")>>) }

GenericStores ==
    {EmptyStore}
    \cup { [EmptyStore EXCEPT !.buckets["bucket"] = [exists |-> TRUE, acl |-> b]] :
            b \in GenericBucketAcls }
    \cup { [EmptyStore EXCEPT !.buckets["bucket"] = [exists |-> TRUE, acl |-> b],
                              !.objects["obj"] = [exists |-> TRUE, acl |-> o]] :
            b \in GenericBucketAcls, o \in GenericObjectAcls }

GenericInit ==
    /\ chk = NoCheck
    /\ hdr = NoHeaders
    /\ store \in GenericStores
    /\ req = NoReq
    /\ inflight = NoInflight

GenericCall ==
    /\ req.kind = "none"
    /\ \E m \in Methods, sw \in Methods \cup {NONE}, u \in UserIds,
          c \in {"bucket", "bucket+segments"}, o \in {"", "obj"} :
        LET self == Self(m, u, c, o, <<>>, NoBody)
        IN  Handle("Generic", "BaseAclHandler", self, store, sw)

\* The handlers of the multipart controllers and of multi-object delete,
\* on the segment container and on the bucket itself, with and without a
\* copy source.
MultipartCall ==
    /\ req.kind = "none"
    /\ \E handler \in {"MultiObjectDeleteAclHandler", "PartAclHandler", "UploadsAclHandler",
                       "UploadAclHandler"},
          m \in Methods, sw \in Methods \cup {NONE}, u \in UserIds,
          c \in {"bucket", "bucket+segments"}, o \in {"", "obj"},
          h \in {<<>>, WithCopySource(<<>>, "/bucket/obj")} :
        LET self == Self(m, u, c, o, h, NoBody)
        IN  Handle("Multipart", handler, self, store, sw)

GenericNext == GenericCall \/ MultipartCall

SpecGeneric == GenericInit /\ [][GenericNext]_vars

\* The key under which a call of the generic procedure looks the table up.
GenericTriple ==
    Triple(req.self.method,
           IF req.method = NONE THEN req.self.method ELSE req.method,
           IF req.self.obj # "" THEN "object" ELSE "container")

\* The resource kinds of the table.
ResourceKinds == {"container", "object"}

\* The entries of the table whose permission is OWNER.
OwnerTriples == {Triple("GET", "HEAD", "container"), Triple("DELETE", "DELETE", "container")}

\* C13 (as claimed): every entry of ACL_MAP that a call can look up carries
\* one of the five permissions FULL_CONTROL, READ, WRITE, READ_ACP,
\* WRITE_ACP, and a resource override that is absent or one of the two
\* resource kinds.
C13_TablePermissionsClosed ==
    (req.kind = "Generic" /\ GenericTriple \in DOMAIN ACL_MAP) =>
        /\ ACL_MAP[GenericTriple].Permission \in PERMISSIONS
        /\ ACL_MAP[GenericTriple].Resource \in ResourceKinds \cup {""}

\* C13 (amended): every entry of ACL_MAP that a call can look up carries one
\* of the five permissions or OWNER, OWNER being the permission of exactly
\* (GET, HEAD, container) and (DELETE, DELETE, container), and a resource
\* override that is absent or one of the two resource kinds.
C13_TablePermissions ==
    (req.kind = "Generic" /\ GenericTriple \in DOMAIN ACL_MAP) =>
        /\ ACL_MAP[GenericTriple].Permission \in PERMISSIONS \cup {"OWNER"}
        /\ ACL_MAP[GenericTriple].Permission = "OWNER" <=> GenericTriple \in OwnerTriples
        /\ ACL_MAP[GenericTriple].Resource \in ResourceKinds \cup {""}

\* The delete of a bucket by a user who is not its owner and holds no
\* FULL_CONTROL grant: the entry with OWNER has been looked up and the check
\* on the bucket has denied.
C13_Witness ==
    /\ req.kind = "Generic"
    /\ GenericTriple = Triple("DELETE", "DELETE", "container")
    /\ ACL_MAP[GenericTriple].Permission = "OWNER"
    /\ req.calls = <<Call("HEAD", "bucket", "")>>
    /\ req.err = "AccessDenied"

\* The error kinds that are answers to the client.
ClientErrorKinds ==
    {"AccessDenied", "NoSuchKey", "NoSuchBucket", "BucketAlreadyExists", "InvalidRequest",
     "InvalidArgument", "S3NotImplemented", "MissingSecurityHeader", "MalformedACLError",
     "UnexpectedContent", "ServiceUnavailable"}

\* C23: the generic procedure called with no explicit permission for a
\* triple (incoming method, backend method, resource kind) that has no entry
\* in ACL_MAP, such as (PUT, PUT, container) or (PUT, POST, object), fails
\* with an internal error that is none of the client-facing kinds, before
\* any backend fetch.
C23_NoEntryInternalError ==
    (req.kind = "Generic" /\ GenericTriple \notin DOMAIN ACL_MAP) =>
        /\ req.err = "Exception"
        /\ req.err \notin ClientErrorKinds
        /\ req.calls = <<>>
        /\ store = req.pre

\* (PUT, POST, object) on an object that exists, by its owner.
C23_Witness ==
    /\ req.kind = "Generic"
    /\ GenericTriple = Triple("PUT", "POST", "object")
    /\ req.pre.objects[req.self.obj].exists
    /\ req.self.user_id = req.pre.objects[req.self.obj].acl.owner.id
    /\ req.err = "Exception"
    /\ req.calls = <<>>

\* C27: an operation whose table permission is OWNER -- (DELETE, DELETE,
\* container) and (GET, HEAD, container) -- is allowed only to the owner of
\* the bucket: for every bucket ACL and every identity that is not the
\* owner, whatever grants it holds, FULL_CONTROL included, the generic check
\* fails with AccessDenied.
C27_OwnerOnly ==
    (/\ req.kind = "Generic"
     /\ GenericTriple \in OwnerTriples
     /\ BucketHadAcl
     /\ req.self.user_id # req.pre.buckets["bucket"].acl.owner.id)
    => req.err = "AccessDenied"

\* The method handle_acl dispatches on: the method argument, or the method
\* of the request.
DispatchedMethod == IF req.method = NONE THEN req.self.method ELSE req.method

HasCopySource == has_header(req.self.headers, CopySourceKey)

PartUpload ==
    /\ req.kind = "Multipart" /\ req.handler = "PartAclHandler"
    /\ req.self.method = "PUT" /\ DispatchedMethod = "PUT"
    /\ req.self.obj # ""

\* The abort of an upload: the HEAD of the upload in the segment container
\* on a DELETE request.
Abort ==
    /\ req.kind = "Multipart" /\ req.handler = "UploadAclHandler"
    /\ req.self.method = "DELETE" /\ DispatchedMethod = "HEAD"
    /\ req.self.obj # "" /\ req.self.container = "bucket+segments"

\* The READ check on the copy source of the request, on the store it found.
SourceRead ==
    IF object_exists(req.pre, CopySource(req.self).bucket, CopySource(req.self).obj)
    THEN acl_check_permission(req.pre.objects[CopySource(req.self).obj].acl,
                              req.self.user_id, "READ")
    ELSE "NoSuchKey"

\* The request ends as the READ check on its copy source, when that fails,
\* and as the WRITE check on the bucket otherwise.
SourceThenBucketChecked ==
    /\ (HasCopySource /\ SourceRead # "ok")
        => (req.err = SourceRead /\ req.calls = <<CopySourceCall>>)
    /\ (HasCopySource /\ SourceRead = "ok")
        => /\ req.err = BucketWrite
           /\ req.calls = <<CopySourceCall, Call("HEAD", "bucket", "")>>
    /\ ~HasCopySource
        => (req.err = BucketWrite /\ req.calls = <<Call("HEAD", "bucket", "")>>)

\* C25 (as claimed): the upload of a part and the abort of an upload each
\* check WRITE on the parent bucket, and each checks READ on the copy
\* source first when the request carries x-amz-copy-source, failing with
\* AccessDenied when the identity cannot read the source.
C25_PartAndAbortCopySource ==
    ((PartUpload \/ Abort) /\ BucketHadAcl) => SourceThenBucketChecked

\* C25 (amended): the upload of a part checks READ on the copy source when
\* the request carries x-amz-copy-source, failing as that check fails
\* (AccessDenied for a denial), and then WRITE on the parent bucket; the
\* abort of an upload checks WRITE on the parent bucket only, whether or not
\* the request carries x-amz-copy-source.
C25_PartCopySourceAbortNone ==
    /\ (PartUpload /\ BucketHadAcl) => SourceThenBucketChecked
    /\ (Abort /\ BucketHadAcl)
        => (req.err = BucketWrite /\ req.calls = <<Call("HEAD", "bucket", "")>>)

\* A part uploaded by the owner of the bucket with a copy source the owner
\* may not read: denied on the source alone.
C25_Witness ==
    /\ PartUpload /\ BucketHadAcl /\ HasCopySource
    /\ BucketWrite = "ok"
    /\ SourceRead = "AccessDenied"
    /\ req.err = "AccessDenied"
    /\ req.calls = <<CopySourceCall>>

\* C26: the DELETE entry point of the handler of multi-object delete makes
\* no permission check and issues no backend fetch: it succeeds for every
\* identity and every bucket ACL and sets no ACL on the request.
C26_MultiDeleteNoCheck ==
    (/\ req.kind = "Multipart" /\ req.handler = "MultiObjectDeleteAclHandler"
     /\ DispatchedMethod = "DELETE")
    => /\ req.err = "ok"
       /\ req.calls = <<>>
       /\ req.bucket_acl = None /\ req.object_acl = None
       /\ store = req.pre

\* The DELETE of an object within a multi-object delete (a POST request) by
\* an identity that may not write the bucket.
C26_Witness ==
    /\ req.kind = "Multipart" /\ req.handler = "MultiObjectDeleteAclHandler"
    /\ req.self.method = "POST" /\ req.method = "DELETE"
    /\ req.self.obj # ""
    /\ BucketHadAcl /\ BucketWrite = "AccessDenied"
    /\ req.err = "ok" /\ req.calls = <<>>

(***************************************************************************)
(* Permission checks on arbitrary ACLs: SpecCheck draws an ACL and applies *)
(* check_permission for an identity and a permission.                      *)
(***************************************************************************)
Grants == {Grant(g, p) : g \in Grantees, p \in PERMISSIONS}

GrantLists == UNION {[1..n -> Grants] : n \in 0..MaxGrants}

\* Owners as an ACL document can name them: the display name need not be the id.
Owners == {Owner(u, n) : u \in UserIds, n \in UserIds}

CheckInit ==
    /\ \E o \in Owners, gs \in GrantLists :
        chk = [NoCheck EXCEPT !.acl = ACL(o, gs)]
    /\ hdr = NoHeaders
    /\ store = EmptyStore
    /\ req = NoReq
    /\ inflight = NoInflight

CheckPermission ==
    /\ chk.outcome = "none"
    /\ \E u \in UserIds, p \in PERMISSIONS :
        chk' = [chk EXCEPT !.user_id = u, !.permission = p,
                           !.outcome = check_permission(chk.acl, u, p)]
    /\ UNCHANGED <<hdr, store, req, inflight>>

CheckNext == CheckPermission

SpecCheck == CheckInit /\ [][CheckNext]_vars

(***************************************************************************)
(* The XML form of arbitrary ACLs: SpecXml draws an ACL as SpecCheck does, *)
(* encodes it, decodes the document and encodes the result.                *)
(***************************************************************************)
XmlRoundTrip ==
    /\ ~chk.xml.done
    /\ chk' = [chk EXCEPT !.xml = xml_round_trip(chk.acl)]
    /\ UNCHANGED <<hdr, store, req, inflight>>

XmlNext == XmlRoundTrip

SpecXml == CheckInit /\ [][XmlNext]_vars

\* C15: for every well-formed ACL (owner id and display name, an ordered
\* list of grants to CanonicalUser, AllUsers, AuthenticatedUsers or
\* LogDelivery grantees, each with one of the five permissions), decoding
\* the XML encoding succeeds and encoding what was decoded gives the same
\* document: owner id and name, number and order of the grants, grantee and
\* permission of each.
C15_XmlRoundTrip ==
    chk.xml.done =>
        /\ chk.xml.err = "ok"
        /\ chk.xml.redoc = chk.xml.doc
        /\ chk.xml.acl = chk.acl


(***************************************************************************)
(* ACLs from request headers: SpecHeaders draws the headers of a request   *)
(* in the order items() visits them, and the owners, and applies           *)
(* from_headers.                                                           *)
(***************************************************************************)
GranteeSpecs ==
    { Spec_(TRUE, "id", "", "U1"),
      Spec_(TRUE, "id", "\"", "U2"),
      Spec_(TRUE, "uri", "", AllUsersUri),
      Spec_(TRUE, "uri", "\"", ""),
      Spec_(TRUE, "uri", "", "http://acs.amazonaws.com/groups/global/Nobody"),
      Spec_(TRUE, "emailAddress", "", "u1@example.com"),
      Spec_(TRUE, "name", "", "U1"),
      Spec_(FALSE, "U1", "", "") }

GrantValues ==
    {Value("", <<s>>) : s \in GranteeSpecs}
    \cup {Value("", <<Spec_(TRUE, "id", "", "U1"), Spec_(TRUE, "id", "\"", "U2")>>)}

GrantSuffixes == {"read", "write", "read-acp", "write-acp", "full-control", "foo"}

HeaderEntries ==
    {[key |-> Key("x-amz-grant-", r), value |-> v] : r \in GrantSuffixes, v \in GrantValues}
    \cup {[key |-> AclKey, value |-> Value(n, <<>>)] : n \in CannedNames \cup {"bogus"}}
    \cup {[key |-> Key("", "content-type"), value |-> Value("text/plain", <<>>)]}

\* A dict holds each key once.
HeaderDicts(entries, n) ==
    {h \in UNION {[1..k -> entries] : k \in 0..n} :
        \A i, j \in 1..Len(h) : i # j => h[i].key # h[j].key}

\* The bound method ACL.owner of an ACL of owner o, as the handlers pass it.
BoundOwnerMethod(o) == [py |-> "instancemethod", id |-> o.id, name |-> o.name]

\* The owner arguments the callers of from_headers give: a bucket's ACL
\* (owner = the requester, or an owner as an ACL document names it), and an
\* object's ACL.
OwnerArgs ==
    { <<Owner("U1", "U1"), NoOwner>>,
      <<Owner("U1", "U2"), NoOwner>>,
      <<Owner("U1", "U2"), Owner("U2", "U2")>>,
      <<BoundOwnerMethod(Owner("U1", "U1")), Owner("U2", "U2")>> }

HeadersInit ==
    /\ chk = NoCheck
    /\ store = EmptyStore
    /\ req = NoReq
    /\ inflight = NoInflight
    /\ \E h \in HeaderDicts(HeaderEntries, MaxHeaders), o \in OwnerArgs :
        hdr = [headers |-> h, bucket_owner |-> o[1], object_owner |-> o[2],
               called |-> FALSE, result |-> [err |-> "ok", acl |-> None]]

FromHeaders ==
    /\ ~hdr.called
    /\ hdr' = [hdr EXCEPT !.called = TRUE,
                          !.result = from_headers(hdr.headers, hdr.bucket_owner, hdr.object_owner)]
    /\ UNCHANGED <<chk, store, req, inflight>>

HeadersNext == FromHeaders

SpecHeaders == HeadersInit /\ [][HeadersNext]_vars

(***************************************************************************)
(* The construction of one grant: SpecGrant constructs a Grant directly,   *)
(* from a grantee spec of a grant header, or from a Grant element.         *)
(*   chk.grant  [via, permission, err, grant]   permission: the string     *)
(*              given to Grant.__init__                                    *)
(***************************************************************************)
\* Permission strings a caller or a Permission element can hold.
PermissionStrings == PERMISSIONS \cup {"read", "Read", "full_control", "FOO", "OWNER"}

GrantInit ==
    /\ chk = NoCheck
    /\ hdr = NoHeaders
    /\ store = EmptyStore
    /\ req = NoReq
    /\ inflight = NoInflight

\* Grant(grantee, permission)
GrantDirect ==
    /\ chk.grant.via = ""
    /\ \E g \in Grantees \cup {NoGrantee}, p \in PermissionStrings :
        LET r == Grant_init(g, p)
        IN  chk' = [chk EXCEPT !.grant = [via |-> "init", permission |-> p,
                                          err |-> r.err, grant |-> r.grant]]
    /\ UNCHANGED <<hdr, store, req, inflight>>

\* Grant(Grantee.from_header(grantee), permission) of from_headers, for one
\* grantee spec under a grant header of suffix r.
GrantFromHeader ==
    /\ chk.grant.via = ""
    /\ \E sp \in GranteeSpecs, r \in GrantSuffixes :
        LET p == replace_dash(upper(r))
            g == header_grantees(<<sp>>, 1, p, <<>>)
        IN  chk' = [chk EXCEPT !.grant =
                        [via |-> "from_header", permission |-> p, err |-> g.err,
                         grant |-> IF g.err = "ok" THEN g.grants[1] ELSE NoGrant]]
    /\ UNCHANGED <<hdr, store, req, inflight>>

\* Grant.from_elem(elem)
GrantFromElem ==
    /\ chk.grant.via = ""
    /\ \E ge \in {XmlUser("U1", "U1"), XmlGroup(AllUsersUri), XmlGroup(NONE),
                  [XmlUser("U1", NONE) EXCEPT !.xsi_type = "AmazonCustomerByEmail"]},
          p \in PermissionStrings :
        LET elem == [grantee |-> ge, permission |-> p]
            r == Grant_from_elem(elem, Grantee_from_elem(elem.grantee))
        IN  chk' = [chk EXCEPT !.grant = [via |-> "from_elem", permission |-> p,
                                          err |-> r.err, grant |-> r.grant]]
    /\ UNCHANGED <<hdr, store, req, inflight>>

GrantNext == GrantDirect \/ GrantFromHeader \/ GrantFromElem

SpecGrant == GrantInit /\ [][GrantNext]_vars

\* C19: every Grant constructed, directly, from headers or from an XML
\* element, has a permission that is exactly one of FULL_CONTROL, READ,
\* WRITE, READ_ACP, WRITE_ACP; construction with any other permission
\* string fails.
C19_GrantPermissionEnumerated ==
    chk.grant.via # "" =>
        /\ chk.grant.err = "ok" => chk.grant.grant.permission \in PERMISSIONS
        /\ chk.grant.permission \notin PERMISSIONS => chk.grant.err # "ok"

HasGrantHeader(headers) == \E i \in 1..Len(headers) : startswith_grant(headers[i].key)

\* The x-amz-grant-* headers all name one of the five permissions and hold
\* only grantee specs of the forms id=<user> and uri=<uri of a group>.
GrantHeadersWellFormed(headers) ==
    \A i \in 1..Len(headers) :
        startswith_grant(headers[i].key) =>
            /\ replace_dash(upper(headers[i].key.rest)) \in PERMISSIONS
            /\ \A j \in 1..Len(headers[i].value.parts) :
                LET s == headers[i].value.parts[j]
                IN  /\ s.eq
                    /\ \/ s.type = "id"
                       \/ s.type = "uri" /\ \E k \in 1..Len(GroupSubclasses) : GroupSubclasses[k].uri = s.text

\* The owner of the resource the ACL is built for: object_owner or bucket_owner.
ResourceOwner == IF hdr.object_owner.py = "Owner" THEN hdr.object_owner ELSE hdr.bucket_owner

\* C14: expanding canned ACL public-read for a resource owner O (bucket
\* owner for a bucket ACL, object owner for an object ACL) always yields
\* exactly two grants, in this order: (READ, AllUsers), then (FULL_CONTROL,
\* CanonicalUser(O)), the user that matches O's id.
C14_PublicReadTwoGrants ==
    (/\ hdr.called
     /\ has_header(hdr.headers, AclKey)
     /\ get_header(hdr.headers, AclKey).text = "public-read"
     /\ ~HasGrantHeader(hdr.headers)
     /\ ResourceOwner.py = "Owner")
    => /\ hdr.result.err = "ok"
       /\ hdr.result.acl.grants =
            <<Grant(AllUsers, "READ"), Grant(User(ResourceOwner.id), "FULL_CONTROL")>>

\* A grantee spec that is not of the form type=value.
SpecMalformed(s) == ~s.eq

\* The grant headers in the order visited, each with its specs in order:
\* the specs of header i up to part j are the specs visited before (i, j).
GrantHeaderIndexes(headers) == {i \in 1..Len(headers) : startswith_grant(headers[i].key)}

UnknownSuffix(headers, i) == replace_dash(upper(headers[i].key.rest)) \notin PERMISSIONS

UnknownCannedName(headers) ==
    has_header(headers, AclKey) /\ get_header(headers, AclKey).text \notin CannedNames

\* A malformed header input: an unknown canned name, a grantee spec not of
\* the form type=value, or a grant suffix that is none of the permissions.
Malformed(headers) ==
    \/ UnknownCannedName(headers)
    \/ \E i \in GrantHeaderIndexes(headers) :
          \/ UnknownSuffix(headers, i)
          \/ \E j \in 1..Len(headers[i].value.parts) : SpecMalformed(headers[i].value.parts[j])

\* C18 (as claimed): from_headers fails with InvalidRequest and returns no
\* ACL for every malformed header input: an x-amz-acl value that is no
\* canned name, a grantee spec not of the form type=value, a grant suffix
\* that does not normalise to one of the five permissions.
C18_MalformedInvalidRequest ==
    (hdr.called /\ Malformed(hdr.headers)) =>
        /\ hdr.result.err = "InvalidRequest"
        /\ hdr.result.acl = None

\* C18 (amended): from_headers fails and returns no ACL for every malformed
\* header input.  The failure is InvalidRequest when the first grantee spec
\* visited is not of the form type=value, and when there is no grant header
\* and x-amz-acl is no canned name while both owners given are Owner
\* objects (with a bucket_owner that is not, the failure is
\* AttributeError).  A grant suffix that is none of the permissions fails
\* with S3NotImplemented when the grantee specs are all well formed ids or
\* group uris.  In every other case the failure is that of the first
\* offending item visited: InvalidRequest, S3NotImplemented or
\* InvalidArgument.
C18_MalformedFails ==
    (hdr.called /\ Malformed(hdr.headers)) =>
        /\ hdr.result.acl = None
        /\ hdr.result.err \in {"InvalidRequest", "S3NotImplemented", "InvalidArgument",
                               "AttributeError"}
        /\ hdr.result.err = "AttributeError" =>
                (/\ ~HasGrantHeader(hdr.headers) /\ has_header(hdr.headers, AclKey)
                 /\ hdr.bucket_owner.py # "Owner")
        /\ (/\ ~HasGrantHeader(hdr.headers)
            /\ hdr.bucket_owner.py = "Owner") => hdr.result.err = "InvalidRequest"
        /\ (\E i \in GrantHeaderIndexes(hdr.headers) :
                /\ \A k \in GrantHeaderIndexes(hdr.headers) : i <= k
                /\ SpecMalformed(hdr.headers[i].value.parts[1]))
                => hdr.result.err = "InvalidRequest"
        /\ (/\ \E i \in GrantHeaderIndexes(hdr.headers) : UnknownSuffix(hdr.headers, i)
            /\ \A i \in GrantHeaderIndexes(hdr.headers) :
                    \A j \in 1..Len(hdr.headers[i].value.parts) :
                        LET sp == hdr.headers[i].value.parts[j]
                        IN  /\ sp.eq
                            /\ \/ sp.type = "id"
                               \/ /\ sp.type = "uri"
                                  /\ \E k \in 1..Len(GroupSubclasses) : GroupSubclasses[k].uri = sp.text)
                => hdr.result.err = "S3NotImplemented"

\* A well-formed grantee under a suffix that is no permission: the failure
\* is S3NotImplemented.
C18_Witness ==
    /\ hdr.called
    /\ Len(hdr.headers) = 1
    /\ startswith_grant(hdr.headers[1].key)
    /\ UnknownSuffix(hdr.headers, 1)
    /\ hdr.headers[1].value.parts = <<Spec_(TRUE, "id", "", "U1")>>
    /\ hdr.result.err = "S3NotImplemented"
    /\ hdr.result.acl = None

\* The canned ACL named by x-amz-acl was expanded for owners that are
\* Owner objects.
CannedExpanded ==
    /\ hdr.called
    /\ has_header(hdr.headers, AclKey)
    /\ hdr.result.err = "ok" /\ hdr.result.acl.some
    /\ hdr.bucket_owner.py = "Owner"

\* C29: canned ACL grants name accounts by the id that check_permission
\* compares: in every canned ACL some FULL_CONTROL grant matches the id of
\* the resource owner, and in an object ACL expanded from bucket-owner-read
\* or bucket-owner-full-control a READ check by the id of the bucket owner
\* succeeds through the grants -- for every owner, also one whose display
\* name differs from its id.
C29_CannedGrantsById ==
    CannedExpanded =>
        /\ \E i \in 1..Len(hdr.result.acl.grants) :
                allow(hdr.result.acl.grants[i], ResourceOwner.id, "FULL_CONTROL") = "true"
        /\ (/\ hdr.object_owner.py = "Owner"
            /\ get_header(hdr.headers, AclKey).text
                    \in {"bucket-owner-read", "bucket-owner-full-control"})
            => scan_grants(hdr.result.acl.grants, 1, hdr.bucket_owner.id, "READ") = "ok"

\* C10 (as claimed): from_headers on headers holding x-amz-acl together with
\* at least one x-amz-grant-* header fails with InvalidRequest and returns no
\* ACL, in whatever order the headers are visited.
C10_BothFormsInvalidRequest ==
    (hdr.called /\ has_header(hdr.headers, AclKey) /\ HasGrantHeader(hdr.headers)) =>
        /\ hdr.result.err = "InvalidRequest"
        /\ hdr.result.acl = None

\* C10 (amended): from_headers on headers holding x-amz-acl together with at
\* least one x-amz-grant-* header always fails and returns no ACL, in
\* whatever order the headers are visited; the failure is InvalidRequest
\* when every x-amz-grant-* header is well formed, and otherwise the error
\* of the first offending grantee spec visited (InvalidRequest,
\* S3NotImplemented or InvalidArgument).
C10_BothFormsFail ==
    (hdr.called /\ has_header(hdr.headers, AclKey) /\ HasGrantHeader(hdr.headers)) =>
        /\ hdr.result.err \in {"InvalidRequest", "S3NotImplemented", "InvalidArgument"}
        /\ hdr.result.acl = None
        /\ GrantHeadersWellFormed(hdr.headers) => hdr.result.err = "InvalidRequest"

C10_Witness ==
    /\ hdr.called
    /\ Len(hdr.headers) = 2
    /\ hdr.headers[1].key = AclKey
    /\ hdr.headers[1].value.text = "private"
    /\ startswith_grant(hdr.headers[2].key)
    /\ GrantHeadersWellFormed(hdr.headers)
    /\ hdr.result.err = "InvalidRequest"
    /\ hdr.result.acl = None

Checked == chk.outcome # "none"

\* A grant that matches identity u for permission p in the sense of the
\* specification: the permission is p or FULL_CONTROL and the membership
\* test of the grantee yields true.
Matches(g, u, p) ==
    /\ g.permission \in {"FULL_CONTROL", p}
    /\ contains(g.grantee, u) = "true"

\* C1: check_permission(owner.id, permission) succeeds for every ACL and
\* every permission, whatever the grants.
C1_OwnerBypass ==
    (Checked /\ chk.user_id = chk.acl.owner.id) => chk.outcome = "ok"

C1_Witness ==
    /\ Checked
    /\ chk.user_id = chk.acl.owner.id
    /\ chk.outcome = "ok"
    /\ \A i \in 1..Len(chk.acl.grants) : ~Matches(chk.acl.grants[i], chk.user_id, chk.permission)

\* C2: for an identity other than the owner, check_permission succeeds iff
\* some grant has permission FULL_CONTROL or the requested one and a grantee
\* containing the identity, and otherwise fails with AccessDenied and with
\* no other error.
C2_NonOwnerIffGrant ==
    (Checked /\ chk.user_id # chk.acl.owner.id) =>
        chk.outcome =
            IF \E i \in 1..Len(chk.acl.grants) :
                    Matches(chk.acl.grants[i], chk.user_id, chk.permission)
            THEN "ok" ELSE "AccessDenied"

\* C3: a FULL_CONTROL grant to a grantee containing u makes check_permission
\* succeed for u and each permission, whatever the other grants and wherever
\* the FULL_CONTROL grant sits.
C3_FullControlSubsumes ==
    (/\ Checked
     /\ \E i \in 1..Len(chk.acl.grants) :
            /\ chk.acl.grants[i].permission = "FULL_CONTROL"
            /\ contains(chk.acl.grants[i].grantee, chk.user_id) = "true")
    => chk.outcome = "ok"

Permuted(gs, f) == [i \in 1..Len(gs) |-> gs[f[i]]]

\* C4: check_permission gives the same outcome on every permutation of the
\* grant list.
C4_OrderIndependent ==
    Checked =>
        \A f \in Permutations(1..Len(chk.acl.grants)) :
            check_permission(ACL(chk.acl.owner, Permuted(chk.acl.grants, f)),
                             chk.user_id, chk.permission) = chk.outcome

\* C5: the membership test of LogDelivery yields false for every identity
\* (it does not raise), so a LogDelivery grant allows nobody.
C5_LogDeliveryContainsNobody ==
    Checked =>
        \A i \in 1..Len(chk.acl.grants) :
            chk.acl.grants[i].grantee = LogDelivery =>
                /\ contains(chk.acl.grants[i].grantee, chk.user_id) = "false"
                /\ allow(chk.acl.grants[i], chk.user_id, chk.acl.grants[i].permission) = "false"

SwapGroup(g) ==
    IF g.grantee = AllUsers THEN Grant(AuthenticatedUsers, g.permission)
    ELSE IF g.grantee = AuthenticatedUsers THEN Grant(AllUsers, g.permission)
    ELSE g

\* C6: AllUsers and AuthenticatedUsers contain every identity, and replacing
\* one by the other in any grant never changes the outcome of
\* check_permission.
C6_GroupsInterchangeable ==
    Checked =>
        /\ contains(AllUsers, chk.user_id) = "true"
        /\ contains(AuthenticatedUsers, chk.user_id) = "true"
        /\ \A i \in 1..Len(chk.acl.grants) :
            check_permission(
                ACL(chk.acl.owner, [chk.acl.grants EXCEPT ![i] = SwapGroup(chk.acl.grants[i])]),
                chk.user_id, chk.permission) = chk.outcome

C6_Witness ==
    /\ Checked
    /\ chk.user_id # chk.acl.owner.id
    /\ chk.outcome = "ok"
    /\ Len(chk.acl.grants) = 1
    /\ chk.acl.grants[1] = Grant(AuthenticatedUsers, chk.permission)

====
